---- MODULE Spec2Model ----
(***************************************************************************)
(* Two-stage control generation: the objective and variant registries,     *)
(* the obligation mapper (Stage 1), the variant mapper and control builder *)
(* (Stage 2) and the generation orchestrator.                              *)
(*                                                                         *)
(* Identifiers and domain names are Python strings whose characters the    *)
(* code inspects (upper, replace, slicing, startswith, split, int); they   *)
(* are sequences of one-character strings here.  The other text fields are *)
(* opaque and stay TLA+ strings.                                           *)
(***************************************************************************)
EXTENDS Integers, Sequences, FiniteSets, TLC

(***************************************************************************)
(* Bounds of the model.                                                    *)
(***************************************************************************)
\* the most entities the two registries hold together before the model stops
\* adding to them
MaxEntities == 2
\* the most entries an LLM answer lists under one field
MaxListed == 2
\* the most size tiers of a variant handed to select_variant_and_build_control
MaxTiers == 3
\* the most objectives a store holds when generate_next_id is asked alone
MaxHeld == 3
\* the largest employee_count the canonical tiers are evaluated for
MaxCount == 1001

(***************************************************************************)
(* Python values.                                                          *)
(***************************************************************************)
\* None in an opaque text field
None == "None"
\* None in a field whose value is otherwise a sequence of characters
NoneS == <<"<None>">>
\* JSON null in a stored document
JsonNull == "null"

(***************************************************************************)
(* str operations.                                                         *)
(***************************************************************************)
LowerCase == <<"a","b","c","d","e","f","g","h","i","j","k","l","m",
               "n","o","p","q","r","s","t","u","v","w","x","y","z">>
UpperCase == <<"A","B","C","D","E","F","G","H","I","J","K","L","M",
               "N","O","P","Q","R","S","T","U","V","W","X","Y","Z">>
Digit == <<"0","1","2","3","4","5","6","7","8","9">>

\* str.upper() on one character
UpperChar(c) ==
    IF \E i \in 1..26 : LowerCase[i] = c
    THEN UpperCase[CHOOSE i \in 1..26 : LowerCase[i] = c]
    ELSE c

\* str.upper()
Upper(s) == [i \in 1..Len(s) |-> UpperChar(s[i])]

\* str.replace(c, ""): every occurrence of the character c removed
Remove(s, c) == SelectSeq(s, LAMBDA x : x # c)

\* s[:n]
Take(s, n) == IF Len(s) <= n THEN s ELSE SubSeq(s, 1, n)

\* s.startswith(p)
StartsWith(s, p) == Len(p) <= Len(s) /\ SubSeq(s, 1, Len(p)) = p

\* s.split("-"): the maximal runs between hyphens, empty runs included
RECURSIVE Split(_)
Split(s) ==
    IF \A i \in 1..Len(s) : s[i] # "-"
    THEN <<s>>
    ELSE LET k == CHOOSE i \in 1..Len(s) :
                    s[i] = "-" /\ \A j \in 1..(i-1) : s[j] # "-"
         IN  <<SubSeq(s, 1, k-1)>> \o Split(SubSeq(s, k+1, Len(s)))

\* str.strip() of blanks
RECURSIVE Strip(_)
Strip(s) ==
    IF s = <<>> THEN s
    ELSE IF Head(s) = " " THEN Strip(Tail(s))
    ELSE IF s[Len(s)] = " " THEN Strip(SubSeq(s, 1, Len(s)-1))
    ELSE s

DigitValue(c) == (CHOOSE i \in 1..10 : Digit[i] = c) - 1

RECURSIVE DigitsValue(_)
DigitsValue(s) ==
    IF s = <<>> THEN 0
    ELSE 10 * DigitsValue(SubSeq(s, 1, Len(s)-1)) + DigitValue(s[Len(s)])

\* the value a failed int() is reported as (ValueError)
ValueError == -1

\* int(s): blanks around the digits are accepted, anything else raises
ParseInt(s) ==
    LET t == Strip(s)
    IN  IF t # <<>> /\ \A i \in 1..Len(t) : \E d \in 1..10 : Digit[d] = t[i]
        THEN DigitsValue(t)
        ELSE ValueError

\* str(n) for n >= 0
RECURSIVE IntToStr(_)
IntToStr(n) ==
    IF n < 10 THEN <<Digit[n+1]>>
    ELSE IntToStr(n \div 10) \o <<Digit[(n % 10) + 1]>>

\* max() of a non-empty set of numbers
Max(S) == CHOOSE m \in S : \A x \in S : x <= m

\* the elements of a sequence
Range(s) == {s[i] : i \in 1..Len(s)}


(***************************************************************************)
(* Texts the model draws from.                                             *)
(***************************************************************************)
\* "Data protection"
DataProtection == <<"D","a","t","a"," ","p","r","o","t","e","c","t","i","o","n">>
\* "Data"
Data == <<"D","a","t","a">>
\* "Trans"
Trans == <<"T","r","a","n","s">>
\* "General"
General == <<"G","e","n","e","r","a","l">>
\* "" (an empty str is falsy, like None)
EmptyStr == <<>>

OBJ_ == <<"O","B","J","-">>
CV_ == <<"C","V","-">>
Hyphen == <<"-">>

\* the domains an obligation or an LLM response may name
Domains == {DataProtection, Data, Trans}

(***************************************************************************)
(* models/compliance.py: the entities, and their JSON form.                *)
(***************************************************************************)
\* ControlObjective(objective_id=..., ...)
ControlObjective(id, name, description, domain, intent, linked, rationale) ==
    [objective_id |-> id, objective_name |-> name, description |-> description,
     domain |-> domain, intent |-> intent, linked_obligation_ids |-> linked,
     rationale |-> rationale]

ObjectiveRequired ==
    {"objective_id", "objective_name", "description", "domain", "linked_obligation_ids"}

\* ControlObjective(**obj_data): pydantic validation of one stored record; a
\* required key that is missing raises ValidationError, a missing or null
\* optional key gives None, keys the model does not know are ignored
ParseObjective(j) ==
    IF \A k \in ObjectiveRequired : k \in DOMAIN j
    THEN [ok |-> TRUE,
          value |-> ControlObjective(
              j.objective_id, j.objective_name, j.description, j.domain,
              IF "intent" \in DOMAIN j /\ j.intent # JsonNull THEN j.intent ELSE None,
              j.linked_obligation_ids,
              IF "rationale" \in DOMAIN j /\ j.rationale # JsonNull
              THEN j.rationale ELSE None)]
    ELSE [ok |-> FALSE, value |-> "ValidationError"]

\* obj.model_dump() written by json.dump: every field, None as null
DumpObjective(o) ==
    [objective_id |-> o.objective_id, objective_name |-> o.objective_name,
     description |-> o.description, domain |-> o.domain,
     intent |-> IF o.intent = None THEN JsonNull ELSE o.intent,
     linked_obligation_ids |-> o.linked_obligation_ids,
     rationale |-> IF o.rationale = None THEN JsonNull ELSE o.rationale]

\* ControlVariant(variant_id=..., ...)
ControlVariant(id, objective_id, name, base, domain, tiers, jur) ==
    [variant_id |-> id, objective_id |-> objective_id, variant_name |-> name,
     base_description |-> base, domain |-> domain, variants |-> tiers,
     jurisdiction_requirements |-> jur]

VariantRequired ==
    {"variant_id", "objective_id", "variant_name", "base_description", "domain",
     "variants"}

\* the empty dict, as a function with no keys
EmptyDict == [k \in {} |-> <<>>]

\* ControlVariant(**var_data): jurisdiction_requirements defaults to {}
ParseVariant(j) ==
    IF \A k \in VariantRequired : k \in DOMAIN j
    THEN [ok |-> TRUE,
          value |-> ControlVariant(
              j.variant_id, j.objective_id, j.variant_name, j.base_description,
              j.domain, j.variants,
              IF "jurisdiction_requirements" \in DOMAIN j
              THEN j.jurisdiction_requirements ELSE EmptyDict)]
    ELSE [ok |-> FALSE, value |-> "ValidationError"]

\* var.model_dump() written by json.dump
DumpVariant(v) ==
    [variant_id |-> v.variant_id, objective_id |-> v.objective_id,
     variant_name |-> v.variant_name, base_description |-> v.base_description,
     domain |-> v.domain, variants |-> v.variants,
     jurisdiction_requirements |-> v.jurisdiction_requirements]

(***************************************************************************)
(* The backing store of a registry: one JSON document in one file.         *)
(***************************************************************************)
\* no file at registry_path
NoFile == [kind |-> "absent"]
\* a file json.load cannot parse
Garbage == [kind |-> "unparsable"]
\* a file holding the JSON object {key: records}
JsonFile(key, records) == [kind |-> "object", key |-> key, records |-> records]

\* data.get(key, []) of a parsed document
DataGet(file, key) ==
    IF file.kind = "object" /\ file.key = key THEN file.records ELSE <<>>

\* ControlObjective(**obj_data) for each stored record
ParsedObjectives(file) ==
    LET records == DataGet(file, "objectives")
    IN  [i \in 1..Len(records) |-> ParseObjective(records[i])]

\* ControlVariant(**var_data) for each stored record
ParsedVariants(file) ==
    LET records == DataGet(file, "control_variants")
    IN  [i \in 1..Len(records) |-> ParseVariant(records[i])]

\* the loop over the stored records: the first record that fails validation
\* raises, and the list built so far is dropped with the frame
ParseAll(parsed) ==
    IF \A i \in 1..Len(parsed) : parsed[i].ok
    THEN [ok |-> TRUE, value |-> [i \in 1..Len(parsed) |-> parsed[i].value]]
    ELSE [ok |-> FALSE, value |-> "ValidationError"]

\* _ensure_registry_file: the file after the call
EnsureRegistryFile(file, key) ==
    IF file.kind = "absent" THEN JsonFile(key, <<>>) ELSE file

\* _load_objectives / _load_variants: the loaded list, or the exception raised
LoadRecords(file, parsed) ==
    IF file.kind = "absent" THEN [ok |-> TRUE, value |-> <<>>]
    ELSE IF file.kind = "unparsable" THEN [ok |-> FALSE, value |-> "JSONDecodeError"]
    ELSE ParseAll(parsed)

\* a _load_objectives that treats every failure as an empty store
_load_objectives_lenient(file) ==
    IF file.kind = "object" /\ ParseAll(ParsedObjectives(file)).ok
    THEN ParseAll(ParsedObjectives(file))
    ELSE [ok |-> TRUE, value |-> <<>>]

_load_objectives(file) == LoadRecords(file, ParsedObjectives(file))
_load_variants(file) == LoadRecords(file, ParsedVariants(file))

\* _save_objectives writing the newest entity alone (an append mistaken for a
\* rewrite)
_save_objectives_last_only(objs) ==
    JsonFile("objectives",
             IF objs = <<>> THEN <<>> ELSE <<DumpObjective(objs[Len(objs)])>>)

\* _save_objectives: the file after a full rewrite
_save_objectives(objs) ==
    JsonFile("objectives", [i \in 1..Len(objs) |-> DumpObjective(objs[i])])

\* _save_variants: the file after a full rewrite
_save_variants(vars) ==
    JsonFile("control_variants", [i \in 1..Len(vars) |-> DumpVariant(vars[i])])

(***************************************************************************)
(* registries/objective_registry.py.  A registry object is the record      *)
(* [objectives, index, file]: self.objectives, self.index and the file at  *)
(* self.registry_path.                                                     *)
(***************************************************************************)
\* {e[key]: e for e in entities}: a later entity replaces an earlier one
IndexBy(entities, key) ==
    [id \in {entities[i][key] : i \in 1..Len(entities)} |->
        entities[CHOOSE i \in 1..Len(entities) :
                    /\ entities[i][key] = id
                    /\ \A j \in (i+1)..Len(entities) : entities[j][key] # id]]

\* d[k] = v on a dict
DictSet(d, k, v) == [x \in DOMAIN d \cup {k} |-> IF x = k THEN v ELSE d[x]]

\* ObjectiveRegistry.get_by_id: self.index.get(objective_id)
Objective_get_by_id(reg, objective_id) ==
    IF objective_id \in DOMAIN reg.index THEN reg.index[objective_id] ELSE None

\* ObjectiveRegistry.get_by_domain
Objective_get_by_domain(reg, domain) ==
    SelectSeq(reg.objectives, LAMBDA o : o.domain = domain)

\* add_objective without its duplicate check
add_objective_unchecked(reg, objective) ==
    LET objs == Append(reg.objectives, objective)
    IN  [objectives |-> objs,
         index |-> DictSet(reg.index, objective.objective_id, objective),
         file |-> _save_objectives(objs)]

\* an add_objective where the last write wins: an existing ID is overwritten
add_objective_last_wins(reg, objective) ==
    IF objective.objective_id \in DOMAIN reg.index
    THEN LET objs == [i \in 1..Len(reg.objectives) |->
                         IF reg.objectives[i].objective_id = objective.objective_id
                         THEN objective ELSE reg.objectives[i]]
         IN  [objectives |-> objs,
              index |-> DictSet(reg.index, objective.objective_id, objective),
              file |-> _save_objectives(objs)]
    ELSE add_objective_unchecked(reg, objective)

\* add_objective that appends the new record to what the file holds
add_objective_appending(reg, objective) ==
    IF objective.objective_id \in DOMAIN reg.index
    THEN reg
    ELSE [objectives |-> Append(reg.objectives, objective),
          index |-> DictSet(reg.index, objective.objective_id, objective),
          file |-> JsonFile("objectives",
                            Append(DataGet(reg.file, "objectives"),
                                   DumpObjective(objective)))]

\* ObjectiveRegistry.add_objective
add_objective(reg, objective) ==
    IF objective.objective_id \in DOMAIN reg.index
    THEN reg
    ELSE LET objs == Append(reg.objectives, objective)
         IN  [objectives |-> objs,
              index |-> DictSet(reg.index, objective.objective_id, objective),
              file |-> _save_objectives(objs)]

\* a domain prefix that is not cut
domain_prefix_uncut(domain) == Remove(Remove(Upper(domain), " "), "-")

\* domain.upper().replace(" ", "").replace("-", "")[:12]
DomainPrefixLen == 12
domain_prefix(domain) ==
    Take(Remove(Remove(Upper(domain), " "), "-"), DomainPrefixLen)

\* a generate_next_id that does not look at the IDs the registry holds
Objective_generate_next_id_first(reg, domain) ==
    OBJ_ \o domain_prefix(domain) \o Hyphen \o <<"1">>

\* ObjectiveRegistry.generate_next_id
Objective_generate_next_id(reg, domain) ==
    LET prefix == OBJ_ \o domain_prefix(domain)
        ids == [i \in 1..Len(reg.objectives) |-> reg.objectives[i].objective_id]
        existing_ids == SelectSeq(ids, LAMBDA id : StartsWith(id, prefix))
        parsed == [i \in 1..Len(existing_ids) |->
                      ParseInt(Split(existing_ids[i])[Len(Split(existing_ids[i]))])]
        numbers == {parsed[i] : i \in 1..Len(parsed)} \ {ValueError}
        max_num == IF numbers # {} THEN Max(numbers) ELSE 0
    IN  IF existing_ids = <<>>
        THEN prefix \o Hyphen \o <<"1">>
        ELSE prefix \o Hyphen \o IntToStr(max_num + 1)

(***************************************************************************)
(* registries/variant_registry.py.  A registry object is the record        *)
(* [variants, index, objective_index, file].                               *)
(***************************************************************************)
\* an objective index that keeps the newest variant of each objective only
_build_objective_index_newest(variants) ==
    [oid \in {variants[i].objective_id : i \in 1..Len(variants)} |->
        LET mine == SelectSeq(variants, LAMBDA v : v.objective_id = oid)
        IN  <<mine[Len(mine)]>>]

\* VariantRegistry._build_objective_index
_build_objective_index(variants) ==
    [oid \in {variants[i].objective_id : i \in 1..Len(variants)} |->
        SelectSeq(variants, LAMBDA v : v.objective_id = oid)]

\* VariantRegistry.get_by_id
Variant_get_by_id(reg, variant_id) ==
    IF variant_id \in DOMAIN reg.index THEN reg.index[variant_id] ELSE None

\* VariantRegistry.get_by_objective
get_by_objective(reg, objective_id) ==
    IF objective_id \in DOMAIN reg.objective_index
    THEN reg.objective_index[objective_id] ELSE <<>>

\* VariantRegistry.get_by_domain
Variant_get_by_domain(reg, domain) ==
    SelectSeq(reg.variants, LAMBDA v : v.domain = domain)

\* add_variant without its duplicate check
add_variant_unchecked(reg, variant) ==
    LET vars == Append(reg.variants, variant)
        old == IF variant.objective_id \in DOMAIN reg.objective_index
               THEN reg.objective_index[variant.objective_id] ELSE <<>>
    IN  [variants |-> vars,
         index |-> DictSet(reg.index, variant.variant_id, variant),
         objective_index |->
             DictSet(reg.objective_index, variant.objective_id, Append(old, variant)),
         file |-> _save_variants(vars)]

\* add_variant that leaves the write for later
add_variant_unsaved(reg, variant) ==
    IF variant.variant_id \in DOMAIN reg.index
    THEN reg
    ELSE [variants |-> Append(reg.variants, variant),
          index |-> DictSet(reg.index, variant.variant_id, variant),
          objective_index |->
              DictSet(reg.objective_index, variant.objective_id,
                      Append(IF variant.objective_id \in DOMAIN reg.objective_index
                             THEN reg.objective_index[variant.objective_id] ELSE <<>>,
                             variant)),
          file |-> reg.file]

\* VariantRegistry.add_variant
add_variant(reg, variant) ==
    IF variant.variant_id \in DOMAIN reg.index
    THEN reg
    ELSE LET vars == Append(reg.variants, variant)
             old == IF variant.objective_id \in DOMAIN reg.objective_index
                    THEN reg.objective_index[variant.objective_id] ELSE <<>>
         IN  [variants |-> vars,
              index |-> DictSet(reg.index, variant.variant_id, variant),
              objective_index |->
                  DictSet(reg.objective_index, variant.objective_id,
                          Append(old, variant)),
              file |-> _save_variants(vars)]

\* generate_next_id with one ID shape for every variant, the first included
Variant_generate_next_id_uniform(reg, objective_id) ==
    LET suffix == IF StartsWith(objective_id, OBJ_)
                  THEN SubSeq(objective_id, 5, Len(objective_id))
                  ELSE objective_id
        n == Len(SelectSeq(reg.variants, LAMBDA v : v.objective_id = objective_id))
    IN  CV_ \o suffix \o Hyphen \o IntToStr(n + 1)

\* the number an existing variant ID contributes: None when its last part is
\* not a number (the except ValueError: continue branch)
VariantNumber(var_id) ==
    LET parts == Split(var_id)
    IN  IF Len(parts) >= 4 THEN ParseInt(parts[Len(parts)]) ELSE 1

\* VariantRegistry.generate_next_id
Variant_generate_next_id(reg, objective_id) ==
    LET suffix == IF StartsWith(objective_id, OBJ_)
                  THEN SubSeq(objective_id, 5, Len(objective_id))
                  ELSE objective_id
        mine == SelectSeq(reg.variants, LAMBDA v : v.objective_id = objective_id)
        existing_ids == [i \in 1..Len(mine) |-> mine[i].variant_id]
        numbers == {VariantNumber(existing_ids[i]) : i \in 1..Len(existing_ids)}
                       \ {ValueError}
        max_num == IF numbers # {} THEN Max(numbers) ELSE 0
    IN  IF existing_ids = <<>>
        THEN CV_ \o suffix
        ELSE CV_ \o suffix \o Hyphen \o IntToStr(max_num + 1)

(***************************************************************************)
(* agents/llm_obligation_mapper.py (Stage 1).  An LLM outcome is           *)
(* [ok |-> FALSE] when the call or the parsing of its answer raises, and   *)
(* [ok |-> TRUE, response |-> r] with r the parsed response otherwise.     *)
(***************************************************************************)
\* x or y or z on str values (None and "" are falsy)
Falsy(x) == x = NoneS \/ x = EmptyStr

\* domain = obj_data.domain or source_obligation.domain or "General"
CreationDomain(obj_data, source_obligation) ==
    IF ~Falsy(obj_data.domain) THEN obj_data.domain
    ELSE IF ~Falsy(source_obligation.domain) THEN source_obligation.domain
    ELSE General

\* the ControlObjective(...) built from the LLM's data under new_id
BuildObjective(new_id, obj_data, source_obligation) ==
    ControlObjective(new_id, obj_data.objective_name, obj_data.description,
                     CreationDomain(obj_data, source_obligation), obj_data.intent,
                     <<source_obligation.obligation_id>>, obj_data.rationale)

\* LLMObligationMapper._create_and_register_objective: the registry after the
\* call and the objective returned
_create_and_register_objective(reg, obj_data, source_obligation) ==
    LET domain == CreationDomain(obj_data, source_obligation)
        new_id == Objective_generate_next_id(reg, domain)
        objective == BuildObjective(new_id, obj_data, source_obligation)
    IN  [reg |-> add_objective(reg, objective), ret |-> objective]

\* the loop over result.new_objectives
RECURSIVE CreateAll(_, _, _)
CreateAll(reg, new_objectives, obligation) ==
    IF new_objectives = <<>> THEN [reg |-> reg, ret |-> <<>>]
    ELSE LET one == _create_and_register_objective(reg, Head(new_objectives), obligation)
             rest == CreateAll(one.reg, Tail(new_objectives), obligation)
         IN  [reg |-> rest.reg, ret |-> <<one.ret>> \o rest.ret]

\* a loop over the matched IDs that stops at the first ID that does not resolve
MatchedObjectivesUntilMiss(reg, matched_ids) ==
    LET misses == {i \in 1..Len(matched_ids) : matched_ids[i] \notin DOMAIN reg.index}
        stop == IF misses = {} THEN Len(matched_ids) + 1
                ELSE CHOOSE i \in misses : \A j \in misses : i <= j
    IN  [i \in 1..(stop - 1) |-> reg.index[matched_ids[i]]]

\* the loop over result.matched_objective_ids: IDs that do not resolve are dropped
MatchedObjectives(reg, matched_ids) ==
    LET found == SelectSeq(matched_ids, LAMBDA id : id \in DOMAIN reg.index)
    IN  [i \in 1..Len(found) |-> reg.index[found[i]]]

\* the registry after every objective named in ids has the obligation appended
\* to its linked_obligation_ids, and the file rewritten
LinkMatched(reg, ids, obligation_id) ==
    LET objs == [i \in 1..Len(reg.objectives) |->
                    IF reg.objectives[i].objective_id \in Range(ids)
                    THEN [reg.objectives[i] EXCEPT !.linked_obligation_ids =
                              Append(@, obligation_id)]
                    ELSE reg.objectives[i]]
    IN  IF Range(ids) \cap DOMAIN reg.index = {} THEN reg
        ELSE [objectives |-> objs, index |-> IndexBy(objs, "objective_id"),
              file |-> _save_objectives(objs)]

\* _process_mapping_result that records the obligation on the objectives it
\* matched
Objective_process_mapping_result_linking(reg, result, obligation) ==
    LET linked == LinkMatched(reg, result.matched_objective_ids,
                              obligation.obligation_id)
        matched == MatchedObjectives(linked, result.matched_objective_ids)
        created == CreateAll(linked, result.new_objectives, obligation)
    IN  [reg |-> created.reg, ret |-> matched \o created.ret]

\* LLMObligationMapper._process_mapping_result
Objective_process_mapping_result(reg, result, obligation) ==
    LET matched == MatchedObjectives(reg, result.matched_objective_ids)
        created == CreateAll(reg, result.new_objectives, obligation)
    IN  [reg |-> created.reg, ret |-> matched \o created.ret]

\* a map_obligation whose failure falls back to the whole catalog
map_obligation_catalog(reg, obligation, llm) ==
    IF llm.ok
    THEN Objective_process_mapping_result(reg, llm.response, obligation)
    ELSE [reg |-> reg, ret |-> reg.objectives]

\* a catalog that lacks the objective registered last
Objective_get_all_but_last(reg) ==
    IF reg.objectives = <<>> THEN <<>>
    ELSE SubSeq(reg.objectives, 1, Len(reg.objectives) - 1)

\* ObjectiveRegistry.get_all, which map_obligation calls for the catalog of
\* existing objectives it puts in the prompt
Objective_get_all(reg) == reg.objectives

\* LLMObligationMapper.map_obligation
map_obligation(reg, obligation, llm) ==
    IF llm.ok
    THEN Objective_process_mapping_result(reg, llm.response, obligation)
    ELSE [reg |-> reg, ret |-> <<>>]

(***************************************************************************)
(* agents/llm_variant_mapper.py (Stage 2).                                 *)
(***************************************************************************)
\* the ControlVariant(...) built from the LLM's data under new_id
BuildVariant(new_id, var_data, objective) ==
    ControlVariant(new_id, objective.objective_id, var_data.variant_name,
                   var_data.base_description, objective.domain,
                   var_data.variants, var_data.jurisdiction_requirements)

\* LLMVariantMapper._create_and_register_variant
_create_and_register_variant(reg, var_data, objective) ==
    LET new_id == Variant_generate_next_id(reg, objective.objective_id)
        variant == BuildVariant(new_id, var_data, objective)
    IN  [reg |-> add_variant(reg, variant), ret |-> variant]

\* a reconciliation that creates the first new variant whenever there is one
Variant_process_mapping_result_create(reg, result, objective) ==
    IF result.new_variants # <<>>
    THEN LET made == _create_and_register_variant(reg, result.new_variants[1], objective)
         IN  [reg |-> made.reg, ret |-> <<made.ret>>]
    ELSE IF /\ result.matched_variant_ids # <<>>
            /\ result.matched_variant_ids[1] \in DOMAIN reg.index
    THEN [reg |-> reg, ret |-> <<reg.index[result.matched_variant_ids[1]]>>]
    ELSE [reg |-> reg, ret |-> <<>>]

\* a reconciliation that returns the first matched ID that resolves
Variant_process_mapping_result_scan(reg, result, objective) ==
    LET hits == {i \in 1..Len(result.matched_variant_ids) :
                    result.matched_variant_ids[i] \in DOMAIN reg.index}
    IN  IF hits # {}
        THEN [reg |-> reg,
              ret |-> <<reg.index[result.matched_variant_ids[
                            CHOOSE i \in hits : \A j \in hits : i <= j]]>>]
        ELSE IF result.new_variants # <<>>
        THEN LET made == _create_and_register_variant(reg, result.new_variants[1],
                                                      objective)
             IN  [reg |-> made.reg, ret |-> <<made.ret>>]
        ELSE [reg |-> reg, ret |-> <<>>]

\* LLMVariantMapper._process_mapping_result: None is returned as <<>>, a
\* variant v as <<v>>
Variant_process_mapping_result(reg, result, objective) ==
    IF /\ result.matched_variant_ids # <<>>
       /\ result.matched_variant_ids[1] \in DOMAIN reg.index
    THEN [reg |-> reg, ret |-> <<reg.index[result.matched_variant_ids[1]]>>]
    ELSE IF result.new_variants # <<>>
    THEN LET made == _create_and_register_variant(reg, result.new_variants[1], objective)
         IN  [reg |-> made.reg, ret |-> <<made.ret>>]
    ELSE [reg |-> reg, ret |-> <<>>]

\* a map_objective_to_variant whose failure falls back to the first variant held
map_objective_to_variant_fallback(reg, objective, llm) ==
    IF llm.ok
    THEN Variant_process_mapping_result(reg, llm.response, objective)
    ELSE [reg |-> reg,
          ret |-> IF reg.variants = <<>> THEN <<>> ELSE <<reg.variants[1]>>]

\* LLMVariantMapper.map_objective_to_variant
map_objective_to_variant(reg, objective, llm) ==
    IF llm.ok
    THEN Variant_process_mapping_result(reg, llm.response, objective)
    ELSE [reg |-> reg, ret |-> <<>>]

(***************************************************************************)
(* applies_if conditions.  The string handed to eval() is modelled by its  *)
(* parse: [k |-> "syntax"] does not parse (SyntaxError), "cmp" compares a  *)
(* name with an integer literal, "and" / "or" are Python's short-circuit   *)
(* operators.                                                              *)
(***************************************************************************)
Cmp(name, op, lit) == [k |-> "cmp", name |-> name, op |-> op, lit |-> lit]
And(l, r) == [k |-> "and", l |-> l, r |-> r]
Or(l, r) == [k |-> "or", l |-> l, r |-> r]
SyntaxErr == [k |-> "syntax"]
\* name.attr op lit, and name.method() op lit
CmpAttr(name, attr, op, lit) ==
    [k |-> "attr", name |-> name, attr |-> attr, op |-> op, lit |-> lit]
CmpCall(name, method, op, lit) ==
    [k |-> "call", name |-> name, method |-> method, op |-> op, lit |-> lit]

\* comparisons whose strict orders admit equality
CompareLoose(a, op, b) ==
    CASE op = "<" -> a <= b
      [] op = "<=" -> a <= b
      [] op = ">" -> a >= b
      [] op = ">=" -> a >= b
      [] op = "==" -> a = b
      [] op = "!=" -> a # b

\* Python's comparison operators on integers
Compare(a, op, b) ==
    CASE op = "<" -> a < b
      [] op = "<=" -> a <= b
      [] op = ">" -> a > b
      [] op = ">=" -> a >= b
      [] op = "==" -> a = b
      [] op = "!=" -> a # b

\* int.bit_length()
RECURSIVE BitLength(_)
BitLength(n) == IF n = 0 THEN 0 ELSE 1 + BitLength(n \div 2)

\* getattr(n, attr) on an int: <<value>>, or <<>> for an AttributeError
IntAttr(n, attr) ==
    CASE attr = "real" -> <<n>>
      [] attr = "numerator" -> <<n>>
      [] attr = "imag" -> <<0>>
      [] attr = "denominator" -> <<1>>
      [] OTHER -> <<>>

\* n.method() on an int: <<value>>, or <<>> for an AttributeError
IntCall(n, method) ==
    CASE method = "bit_length" -> <<BitLength(n)>>
      [] method = "conjugate" -> <<n>>
      [] method = "__abs__" -> <<n>>
      [] OTHER -> <<>>

\* eval(expr, {"__builtins__": {}}, context_vars): "True", "False", or "raise"
\* (a SyntaxError, the NameError of a name that is no key of context_vars, or
\* the AttributeError of an attribute the value does not have); eval compiles
\* any Python expression, so attribute access and method calls on a value of
\* context_vars are evaluated
RECURSIVE Eval(_, _)
Eval(e, context_vars) ==
    CASE e.k = "syntax" -> "raise"
      [] e.k = "cmp" ->
            IF e.name \in DOMAIN context_vars
            THEN IF Compare(context_vars[e.name], e.op, e.lit) THEN "True" ELSE "False"
            ELSE "raise"
      [] e.k = "attr" ->
            IF e.name \in DOMAIN context_vars
            THEN LET v == IntAttr(context_vars[e.name], e.attr)
                 IN  IF v = <<>> THEN "raise"
                     ELSE IF Compare(v[1], e.op, e.lit) THEN "True" ELSE "False"
            ELSE "raise"
      [] e.k = "call" ->
            IF e.name \in DOMAIN context_vars
            THEN LET v == IntCall(context_vars[e.name], e.method)
                 IN  IF v = <<>> THEN "raise"
                     ELSE IF Compare(v[1], e.op, e.lit) THEN "True" ELSE "False"
            ELSE "raise"
      [] e.k = "and" ->
            LET l == Eval(e.l, context_vars)
            IN  IF l = "True" THEN Eval(e.r, context_vars) ELSE l
      [] e.k = "or" ->
            LET l == Eval(e.l, context_vars)
            IN  IF l = "False" THEN Eval(e.r, context_vars) ELSE l

\* x or 0 on an Optional[int]: None is <<>>, the integer n is <<n>>
OrZero(x) == IF x = <<>> \/ x = <<0>> THEN 0 ELSE x[1]

\* LLMVariantMapper._evaluate_applies_if
_evaluate_applies_if(applies_if, company_context) ==
    LET context_vars == [employee_count |-> OrZero(company_context.employee_count)]
        result == Eval(applies_if, context_vars)
    IN  result = "True"

\* d.get(key, default) on a dict
Get(d, key, default) == IF key \in DOMAIN d THEN d[key] ELSE default

\* sep.join(items), as the sequence of its pieces
RECURSIVE Join(_, _)
Join(items, sep) ==
    IF Len(items) <= 1 THEN items
    ELSE <<Head(items), sep>> \o Join(Tail(items), sep)

\* a selection of the last tier whose applies_if evaluates true
LastApplicable(tiers, company_context) ==
    LET hits == {i \in 1..Len(tiers) :
                    _evaluate_applies_if(Get(tiers[i], "applies_if", SyntaxErr),
                                         company_context)}
    IN  IF hits = {} THEN 0 ELSE CHOOSE i \in hits : \A j \in hits : i >= j

\* a selection that falls back to the last tier when none applies
FirstApplicableOrLast(tiers, company_context) ==
    LET hits == {i \in 1..Len(tiers) :
                    _evaluate_applies_if(Get(tiers[i], "applies_if", SyntaxErr),
                                         company_context)}
    IN  IF hits = {} THEN Len(tiers) ELSE CHOOSE i \in hits : \A j \in hits : i <= j

\* a selection that always falls back to the first tier
FirstTier(tiers, company_context) == IF tiers = <<>> THEN 0 ELSE 1

\* the for loop over variant.variants with its break: the index of the first
\* tier whose applies_if evaluates true, 0 when there is none
FirstApplicable(tiers, company_context) ==
    LET hits == {i \in 1..Len(tiers) :
                    _evaluate_applies_if(Get(tiers[i], "applies_if", SyntaxErr),
                                         company_context)}
    IN  IF hits = {} THEN 0 ELSE CHOOSE i \in hits : \A j \in hits : i <= j

\* the requirement lines taken in the reverse of the company's order
RECURSIVE ApplicableRequirementsReversed(_, _)
ApplicableRequirementsReversed(jurisdictions, jurisdiction_requirements) ==
    IF jurisdictions = <<>> THEN <<>>
    ELSE ApplicableRequirementsReversed(Tail(jurisdictions), jurisdiction_requirements)
         \o (IF Head(jurisdictions) \in DOMAIN jurisdiction_requirements
             THEN jurisdiction_requirements[Head(jurisdictions)] ELSE <<>>)

\* the requirement lines of the company's jurisdictions, in the company's order
RECURSIVE ApplicableRequirements(_, _)
ApplicableRequirements(jurisdictions, jurisdiction_requirements) ==
    IF jurisdictions = <<>> THEN <<>>
    ELSE (IF Head(jurisdictions) \in DOMAIN jurisdiction_requirements
          THEN jurisdiction_requirements[Head(jurisdictions)] ELSE <<>>)
         \o ApplicableRequirements(Tail(jurisdictions), jurisdiction_requirements)

\* the "- {req}\n" lines
RECURSIVE Bullets(_)
Bullets(reqs) ==
    IF reqs = <<>> THEN <<>>
    ELSE <<"- ", Head(reqs), "\n">> \o Bullets(Tail(reqs))

\* Control(control_id=..., ...)
Control(id, name, description, linked, domain, evidence, review, impact) ==
    [control_id |-> id, control_name |-> name, control_description |-> description,
     linked_obligation_ids |-> linked, domain |-> domain,
     expected_evidence |-> evidence, review_interval |-> review, impact |-> impact]

\* LLMVariantMapper.select_variant_and_build_control: [raised |-> TRUE] when
\* selected_variant['variant_type'] raises KeyError, else the value returned:
\* <<>> for None, <<control>> for a control
select_variant_and_build_control(variant, company_context, linked_obligation_ids) ==
    LET tiers == variant.variants
        hit == FirstApplicable(tiers, company_context)
        \* an empty dict is falsy, so "if not selected_variant" also takes it
        chosen == IF hit # 0 /\ DOMAIN tiers[hit] # {} THEN hit
                  ELSE IF tiers # <<>> /\ DOMAIN tiers[1] # {} THEN 1
                  ELSE 0
    IN  IF chosen = 0 THEN [raised |-> FALSE, ret |-> <<>>]
        ELSE IF "variant_type" \notin DOMAIN tiers[chosen]
        THEN [raised |-> TRUE, ret |-> <<>>]
        ELSE
        LET selected_variant == tiers[chosen]
            control_id == variant.variant_id \o Hyphen
                              \o Upper(selected_variant.variant_type)
            applicable_requirements ==
                ApplicableRequirements(company_context.jurisdictions,
                                       variant.jurisdiction_requirements)
            additions == Get(selected_variant, "description_additions", "")
            description ==
                <<variant.base_description>>
                \o (IF additions # "" THEN <<"\n\n", additions>> ELSE <<>>)
                \o (IF applicable_requirements # <<>>
                    THEN <<"\n\nJurisdiction-specific requirements:\n">>
                         \o Bullets(applicable_requirements)
                    ELSE <<>>)
            evidence == Get(selected_variant, "evidence_requirements", <<>>)
            evidence_str == IF evidence # <<>> THEN Join(evidence, "; ") ELSE NoneS
        IN  [raised |-> FALSE,
             ret |-> <<Control(control_id, variant.variant_name, description,
                               Join(linked_obligation_ids, "; "), variant.domain,
                               evidence_str,
                               Get(selected_variant, "review_interval", "12 months"),
                               "Critical")>>]

(***************************************************************************)
(* Inputs the model draws from.                                            *)
(***************************************************************************)
OBJ_TRANS_1 == OBJ_ \o <<"T","R","A","N","S","-","1">>
OBJ_DATA_1 == OBJ_ \o <<"D","A","T","A","-","1">>
\* an ID no registry of the model ever holds
OBJ_GHOST_9 == OBJ_ \o <<"G","H","O","S","T","-","9">>
CV_TRANS_1 == CV_ \o <<"T","R","A","N","S","-","1">>
CV_TRANS_1_7 == CV_TRANS_1 \o <<"-","7">>
CV_GHOST_9 == CV_ \o <<"G","H","O","S","T","-","9">>

\* the obligations of a run: one with a domain, one without
OBL_A == [obligation_id |-> "OBL-A", domain |-> DataProtection]
OBL_B == [obligation_id |-> "OBL-B", domain |-> NoneS]
Obligations == {OBL_A, OBL_B}
\* a third obligation, of another domain
OBL_C == [obligation_id |-> "OBL-C", domain |-> Trans]

\* the new_objectives entries an LLM response may hold
NewObjectiveData(name, domain) ==
    [objective_name |-> name, description |-> "what", domain |-> domain,
     intent |-> "why", rationale |-> "because"]
NewObjectives == {NewObjectiveData("A", d) : d \in {Data, EmptyStr}}

\* the entities handed to add_objective directly: two share an ID and differ
\* in another field
DirectObjectives ==
    {ControlObjective(OBJ_DATA_1, n, "what", Data, None, <<>>, None) : n \in {"A", "B"}}

\* the canonical size tiers of the prompt
Tier(type, applies_if, review) ==
    [variant_type |-> type, applies_if |-> applies_if,
     description_additions |-> "how", evidence_requirements |-> <<"Policy", "Logs">>,
     review_interval |-> review]
Startup == Tier(<<"s","t","a","r","t","u","p">>, Cmp("employee_count", "<", 50), "12 months")
Sme == Tier(<<"s","m","e">>,
            And(Cmp("employee_count", ">=", 50), Cmp("employee_count", "<", 1000)),
            "6 months")
Enterprise == Tier(<<"e","n","t","e","r","p","r","i","s","e">>,
                   Cmp("employee_count", ">=", 1000), "3 months")
CanonicalTiers == <<Startup, Sme, Enterprise>>

\* jurisdiction_requirements = {"SE": ["req1"], "EU": ["req2"]}
SeEu == [c \in {"SE", "EU"} |-> IF c = "SE" THEN <<"req1">> ELSE <<"req2">>]

\* the new_variants entries an LLM response may hold
NewVariantData(name, tiers, jur) ==
    [variant_name |-> name, base_description |-> "base", variants |-> tiers,
     jurisdiction_requirements |-> jur]
NewVariants == {NewVariantData("V", CanonicalTiers, SeEu)}

\* the entities handed to add_variant directly
DirectVariants ==
    {ControlVariant(CV_TRANS_1, OBJ_TRANS_1, n, "base", DataProtection,
                    CanonicalTiers, EmptyDict) : n \in {"V", "W"}}
    \cup {ControlVariant(CV_TRANS_1_7, OBJ_TRANS_1, "V", "base", DataProtection,
                         CanonicalTiers, EmptyDict)}

\* the objectives example of models/compliance.py as a hand-written record:
\* the optional keys intent and rationale are not given
SeedObjective ==
    [objective_id |-> OBJ_TRANS_1, objective_name |-> "Transparency",
     description |-> "what", domain |-> DataProtection,
     linked_obligation_ids |-> <<"OBL-GDPR-2">>]

\* the files a registry may find at its path when it is constructed
ObjectiveFiles ==
    {NoFile, Garbage,
     JsonFile("objectives", <<SeedObjective>>),
     \* a record without its required objective_id
     JsonFile("objectives", <<[objective_name |-> "Transparency"]>>),
     \* a JSON object without the "objectives" key
     JsonFile("items", <<SeedObjective>>)}

VariantFiles ==
    {NoFile, Garbage,
     JsonFile("control_variants", <<[variant_name |-> "V"]>>)}

(***************************************************************************)
(* The state.                                                              *)
(***************************************************************************)
VARIABLES
    \* the ObjectiveRegistry instance and the file at its registry_path
    objectives, obj_index, obj_file,
    \* "unborn" before the constructor ran, "live" after it returned, the name
    \* of the exception when it raised
    obj_status,
    \* the VariantRegistry instance and the file at its registry_path
    variants, var_index, objective_index, var_file, var_status,
    \* the last call made on a registry or a mapper, with what it returned
    last,
    \* the concurrent creations of the unserialized variant (free in Spec)
    worker,
    \* the frame of generate_controls (idle in Spec)
    run

vars == <<objectives, obj_index, obj_file, obj_status,
          variants, var_index, objective_index, var_file, var_status,
          last, worker, run>>

obj_vars == <<objectives, obj_index, obj_file, obj_status>>
var_vars == <<variants, var_index, objective_index, var_file, var_status>>

ObjReg == [objectives |-> objectives, index |-> obj_index, file |-> obj_file]
VarReg == [variants |-> variants, index |-> var_index,
           objective_index |-> objective_index, file |-> var_file]

SetObjReg(reg) ==
    /\ objectives' = reg.objectives
    /\ obj_index' = reg.index
    /\ obj_file' = reg.file

SetVarReg(reg) ==
    /\ variants' = reg.variants
    /\ var_index' = reg.index
    /\ objective_index' = reg.objective_index
    /\ var_file' = reg.file

NoWorkers == <<>>
NoRun == [pc |-> "idle"]

\* ObjectiveRegistry.__init__: a first instance, or a fresh one over the same
\* file; when _load_objectives raises no instance exists
ObjectiveRegistry_init ==
    LET loaded == _load_objectives(obj_file)
    IN  IF loaded.ok
        THEN /\ objectives' = loaded.value
             /\ obj_index' = IndexBy(loaded.value, "objective_id")
             /\ obj_file' = EnsureRegistryFile(obj_file, "objectives")
             /\ obj_status' = "live"
        ELSE /\ objectives' = <<>>
             /\ obj_index' = EmptyDict
             /\ obj_file' = obj_file
             /\ obj_status' = loaded.value

\* VariantRegistry.__init__
VariantRegistry_init ==
    LET loaded == _load_variants(var_file)
    IN  IF loaded.ok
        THEN /\ variants' = loaded.value
             /\ var_index' = IndexBy(loaded.value, "variant_id")
             /\ objective_index' = _build_objective_index(loaded.value)
             /\ var_file' = EnsureRegistryFile(var_file, "control_variants")
             /\ var_status' = "live"
        ELSE /\ variants' = <<>>
             /\ var_index' = EmptyDict
             /\ objective_index' = EmptyDict
             /\ var_file' = var_file
             /\ var_status' = loaded.value

(***************************************************************************)
(* What the LLM may answer.                                                *)
(***************************************************************************)
\* the sequences over S of length at most 1
UpToOne(S) == {<<>>} \cup {<<x>> : x \in S}

LLMFailure == [ok |-> FALSE]

\* Stage 1: the call raises, or the response names at most one objective ID
\* (one of the catalog, or one that does not exist) and at most one new objective
Stage1Outcomes(reg) ==
    {LLMFailure} \cup
    {[ok |-> TRUE,
      response |-> [matched_objective_ids |-> m, new_objectives |-> n]] :
        m \in UpToOne(DOMAIN reg.index \cup {OBJ_GHOST_9}),
        n \in UpToOne(NewObjectives)}

\* Stage 2
Stage2Outcomes(reg) ==
    {LLMFailure} \cup
    {[ok |-> TRUE,
      response |-> [matched_variant_ids |-> m, new_variants |-> n]] :
        m \in UpToOne(DOMAIN reg.index \cup {CV_GHOST_9}),
        n \in UpToOne(NewVariants)}

(***************************************************************************)
(* The calls on the registries and the mappers, one action each.           *)
(***************************************************************************)
\* whether the registries may take n more entities
Room(n) == n = 0 \/ Len(objectives) + Len(variants) + n <= MaxEntities

\* ObjectiveRegistry(path): the first instance of the process, or a fresh
\* instance over the same file
NewObjectiveRegistry ==
    /\ obj_status \in {"unborn", "live"}
    /\ ObjectiveRegistry_init
    /\ last' = [op |-> "ObjectiveRegistry", fresh |-> obj_status = "live"]
    /\ UNCHANGED <<var_vars, worker, run>>

\* VariantRegistry(path)
NewVariantRegistry ==
    /\ var_status \in {"unborn", "live"}
    /\ VariantRegistry_init
    /\ last' = [op |-> "VariantRegistry", fresh |-> var_status = "live"]
    /\ UNCHANGED <<obj_vars, worker, run>>

\* objective_registry.add_objective(o)
AddObjective(o) ==
    /\ obj_status = "live"
    /\ o.objective_id \in DOMAIN obj_index \/ Room(1)
    /\ SetObjReg(add_objective(ObjReg, o))
    /\ last' = [op |-> "add_objective", arg |-> o,
                dup |-> o.objective_id \in DOMAIN obj_index]
    /\ UNCHANGED <<obj_status, var_vars, worker, run>>

\* objective_registry.generate_next_id(domain)
GenerateObjectiveId(domain) ==
    /\ obj_status = "live"
    /\ last' = [op |-> "Objective.generate_next_id", arg |-> domain,
                ret |-> Objective_generate_next_id(ObjReg, domain)]
    /\ UNCHANGED <<obj_vars, var_vars, worker, run>>

\* obligation_mapper.map_obligation(obligation), with the LLM's outcome
MapObligation(obligation, llm) ==
    /\ obj_status = "live"
    /\ llm.ok => Room(Len(llm.response.new_objectives))
    /\ LET done == map_obligation(ObjReg, obligation, llm)
       IN  /\ SetObjReg(done.reg)
           /\ last' = [op |-> "map_obligation", arg |-> obligation.obligation_id,
                       llm |-> llm, ret |-> done.ret]
    /\ UNCHANGED <<obj_status, var_vars, worker, run>>

\* variant_registry.add_variant(v)
AddVariant(v) ==
    /\ var_status = "live"
    /\ v.variant_id \in DOMAIN var_index \/ Room(1)
    /\ SetVarReg(add_variant(VarReg, v))
    /\ last' = [op |-> "add_variant", arg |-> v,
                dup |-> v.variant_id \in DOMAIN var_index]
    /\ UNCHANGED <<var_status, obj_vars, worker, run>>

\* variant_registry.generate_next_id(objective_id)
GenerateVariantId(objective_id) ==
    /\ var_status = "live"
    /\ last' = [op |-> "Variant.generate_next_id", arg |-> objective_id,
                ret |-> Variant_generate_next_id(VarReg, objective_id)]
    /\ UNCHANGED <<obj_vars, var_vars, worker, run>>

\* variant_mapper.map_objective_to_variant(objective, ...), with the LLM's outcome
MapObjectiveToVariant(objective, llm) ==
    /\ var_status = "live"
    /\ llm.ok => Room(Len(llm.response.new_variants))
    /\ LET done == map_objective_to_variant(VarReg, objective, llm)
       IN  /\ SetVarReg(done.reg)
           /\ last' = [op |-> "map_objective_to_variant",
                       arg |-> objective.objective_id, llm |-> llm, ret |-> done.ret]
    /\ UNCHANGED <<var_status, obj_vars, worker, run>>

\* the objective IDs generate_next_id is asked about: those of the registry's
\* objectives and the example ID of models/compliance.py
ObjectiveIds == DOMAIN obj_index \cup {OBJ_TRANS_1}

\* the objectives Stage 2 is asked about: those of the registry and the
\* example objective of models/compliance.py
Stage2Objectives == Range(objectives) \cup {ParseObjective(SeedObjective).value}

Init ==
    /\ objectives = <<>>
    /\ obj_index = EmptyDict
    /\ obj_file \in ObjectiveFiles
    /\ obj_status = "unborn"
    /\ variants = <<>>
    /\ var_index = EmptyDict
    /\ objective_index = EmptyDict
    /\ var_file \in VariantFiles
    /\ var_status = "unborn"
    /\ last = [op |-> "none"]
    /\ worker = NoWorkers
    /\ run = NoRun

Next ==
    \/ NewObjectiveRegistry
    \/ NewVariantRegistry
    \/ \E o \in DirectObjectives : AddObjective(o)
    \/ \E d \in Domains : GenerateObjectiveId(d)
    \/ \E ob \in Obligations : \E llm \in Stage1Outcomes(ObjReg) : MapObligation(ob, llm)
    \/ \E v \in DirectVariants : AddVariant(v)
    \/ \E id \in ObjectiveIds : GenerateVariantId(id)
    \/ \E o \in Stage2Objectives : \E llm \in Stage2Outcomes(VarReg) :
           MapObjectiveToVariant(o, llm)

Spec == Init /\ [][Next]_vars

(***************************************************************************)
(* Properties of the registries.                                           *)
(***************************************************************************)
\* the entities the file holds under key, as stored
StoredIds(file, key, idkey) ==
    LET recs == DataGet(file, key)
    IN  [i \in 1..Len(recs) |-> recs[i][idkey]]

\* how many entities of a sequence carry an ID
Copies(entities, idkey, id) ==
    Cardinality({i \in 1..Len(entities) : entities[i][idkey] = id})

\* C1: add_objective / add_variant with an entity whose ID is already present
\* changes nothing (sequence, ID map, objective index, file), even when the
\* entity's other fields differ from the stored one's; after any add, exactly
\* one stored copy carries the added entity's ID.
C1_AddExistingIsNoOp ==
    [][/\ (last'.op = "add_objective" /\ last'.dup) =>
              UNCHANGED <<objectives, obj_index, obj_file>>
       /\ last'.op = "add_objective" =>
              /\ Copies(objectives', "objective_id", last'.arg.objective_id) = 1
              /\ Copies(DataGet(obj_file', "objectives"), "objective_id",
                        last'.arg.objective_id) = 1
       /\ (last'.op = "add_variant" /\ last'.dup) =>
              UNCHANGED <<variants, var_index, objective_index, var_file>>
       /\ last'.op = "add_variant" =>
              /\ Copies(variants', "variant_id", last'.arg.variant_id) = 1
              /\ Copies(DataGet(var_file', "control_variants"), "variant_id",
                        last'.arg.variant_id) = 1
      ]_vars

\* C1 witness: an add whose entity differs from the stored entity of the same ID
C1_Witness ==
    /\ last.op = "add_objective"
    /\ last.dup
    /\ obj_index[last.arg.objective_id] # last.arg
    /\ obj_index[last.arg.objective_id].objective_name = "A"
    /\ last.arg.objective_name = "B"

\* whether the entities of a sequence carry pairwise distinct IDs
DistinctIds(entities, idkey) ==
    \A i, j \in 1..Len(entities) : entities[i][idkey] = entities[j][idkey] => i = j

\* C2: with generate_next_id + add as one step, from a store of pairwise
\* distinct IDs, no two entities of a registry share an ID and the ID map has
\* exactly one key per stored entity.
C2_UniqueIds ==
    /\ obj_status = "live" =>
           /\ DistinctIds(objectives, "objective_id")
           /\ DOMAIN obj_index = {objectives[i].objective_id : i \in 1..Len(objectives)}
           /\ Cardinality(DOMAIN obj_index) = Len(objectives)
    /\ var_status = "live" =>
           /\ DistinctIds(variants, "variant_id")
           /\ DOMAIN var_index = {variants[i].variant_id : i \in 1..Len(variants)}
           /\ Cardinality(DOMAIN var_index) = Len(variants)

\* C2 witness: a creation in a domain that already held an objective
C2_Witness ==
    /\ last.op = "map_obligation"
    /\ Len(objectives) = 2
    /\ Len(last.ret) = 1
    /\ last.ret[1] = objectives[2]
    /\ objectives[1].domain = objectives[2].domain

\* "OBJ-DATAPROTECTION-1", the ID the docstring of generate_next_id shows
OBJ_DATAPROTECTION(n) ==
    OBJ_ \o <<"D","A","T","A","P","R","O","T","E","C","T","I","O","N","-">> \o IntToStr(n)

\* C4: for domain "Data protection" with no existing objectives,
\* generate_next_id yields OBJ-DATAPROTECTION-1; after registering it the next
\* call yields OBJ-DATAPROTECTION-2.
C4_DataProtectionIds ==
    (last.op = "Objective.generate_next_id" /\ last.arg = DataProtection) =>
        /\ objectives = <<>> => last.ret = OBJ_DATAPROTECTION(1)
        \* the one objective is the one Stage 1 created for obligation OBL-A
        /\ (Len(objectives) = 1 /\ objectives[1].domain = DataProtection
                /\ objectives[1].linked_obligation_ids = <<"OBL-A">>) =>
               last.ret = OBJ_DATAPROTECTION(2)

\* the variant IDs the registry holds for OBJ-TRANS-1, in registry order
TransVariantIds ==
    LET mine == SelectSeq(variants, LAMBDA v : v.objective_id = OBJ_TRANS_1)
    IN  [i \in 1..Len(mine) |-> mine[i].variant_id]

\* the number of hyphen-separated segments of an ID
Segments(id) == Cardinality({i \in 1..Len(id) : id[i] = "-"}) + 1

\* the digits after the last hyphen of an ID, as a number
TrailingNumber(id) ==
    LET k == CHOOSE i \in 1..Len(id) : id[i] = "-" /\ \A j \in (i+1)..Len(id) : id[j] # "-"
    IN  DigitsValue(SubSeq(id, k+1, Len(id)))

\* the number C5 gives an existing variant ID
C5_Number(id) == IF Segments(id) < 4 THEN 1 ELSE TrailingNumber(id)

\* C5: for OBJ-TRANS-1 with no variants generate_next_id yields CV-TRANS-1;
\* with CV-TRANS-1 registered it yields CV-TRANS-1-2, then CV-TRANS-1-3; in
\* general the result is CV-TRANS-1-{max+1}, an existing ID of fewer than 4
\* segments counting as 1 and one of 4 or more as its last segment.
C5_VariantIdShape ==
    (last.op = "Variant.generate_next_id" /\ last.arg = OBJ_TRANS_1) =>
        /\ TransVariantIds = <<>> => last.ret = CV_TRANS_1
        /\ TransVariantIds = <<CV_TRANS_1>> => last.ret = CV_TRANS_1 \o <<"-","2">>
        /\ TransVariantIds = <<CV_TRANS_1, CV_TRANS_1 \o <<"-","2">>>> =>
               last.ret = CV_TRANS_1 \o <<"-","3">>
        /\ TransVariantIds # <<>> =>
               last.ret = CV_TRANS_1 \o Hyphen \o
                   IntToStr(1 + Max({C5_Number(TransVariantIds[i]) :
                                        i \in 1..Len(TransVariantIds)}))

\* C5 witness: the third ID is asked for after CV-TRANS-1 and CV-TRANS-1-2 were
\* generated and registered
C5_Witness ==
    /\ last.op = "Variant.generate_next_id"
    /\ last.arg = OBJ_TRANS_1
    /\ TransVariantIds = <<CV_TRANS_1, CV_TRANS_1 \o <<"-","2">>>>
    /\ last.ret = CV_TRANS_1 \o <<"-","3">>

\* s is a prefix of t
IsPrefix(s, t) == Len(s) <= Len(t) /\ SubSeq(t, 1, Len(s)) = s

\* C7: a fresh registry instance constructed over the store of a live one
\* holds exactly the live one's entities, in the same order and with the same
\* field values; the fresh variant registry also has the same objective index.
C7_RoundTrip ==
    [][/\ (last'.op = "ObjectiveRegistry" /\ last'.fresh) =>
              /\ obj_status' = "live"
              /\ objectives' = objectives
              /\ obj_index' = obj_index
       /\ (last'.op = "VariantRegistry" /\ last'.fresh) =>
              /\ var_status' = "live"
              /\ variants' = variants
              /\ var_index' = var_index
              /\ objective_index' = objective_index
      ]_vars

\* C7 witness: a fresh instance over a store of two objectives, one of them
\* with an optional field that is None
C7_Witness ==
    /\ last.op = "ObjectiveRegistry"
    /\ last.fresh
    /\ Len(objectives) = 2
    /\ \E i \in 1..2 : objectives[i].intent = None
    /\ \E i \in 1..2 : objectives[i].intent # None

\* C8: while a registry is live, its file holds exactly the in-memory entity
\* sequence, in order: every add that changed the registry has rewritten the
\* whole file before returning.
C8_StoreMatchesMemory ==
    /\ obj_status = "live" =>
           /\ obj_file.kind = "object"
           /\ ParseAll(ParsedObjectives(obj_file))
                  = [ok |-> TRUE, value |-> objectives]
    /\ var_status = "live" =>
           /\ var_file.kind = "object"
           /\ ParseAll(ParsedVariants(var_file))
                  = [ok |-> TRUE, value |-> variants]

\* C8 witness: a second variant was added and the file holds both
C8_Witness ==
    /\ last.op \in {"add_variant", "map_objective_to_variant"}
    /\ Len(variants) = 2
    /\ Len(DataGet(var_file, "control_variants")) = 2

\* the entities a file holds, <<>> when it holds none that parse
StoredObjectives(file) ==
    LET parsed == ParseAll(ParsedObjectives(file))
    IN  IF parsed.ok THEN parsed.value ELSE <<>>

StoredVariants(file) ==
    LET parsed == ParseAll(ParsedVariants(file))
    IN  IF parsed.ok THEN parsed.value ELSE <<>>

\* C9: the registries are append-only: across every step the previous
\* get_all() sequence is a prefix of the new one, every ID keeps the entity it
\* mapped to, and the stored entities only grow at the end; a Stage 1 call
\* that only matches existing objectives leaves the objective registry and its
\* file as they were, linked_obligation_ids included.
C9_AppendOnly ==
    [][/\ IsPrefix(objectives, objectives')
       /\ \A id \in DOMAIN obj_index :
              id \in DOMAIN obj_index' /\ obj_index'[id] = obj_index[id]
       /\ (obj_status = "live" /\ obj_file' # obj_file) =>
              IsPrefix(StoredObjectives(obj_file), StoredObjectives(obj_file'))
       /\ IsPrefix(variants, variants')
       /\ \A id \in DOMAIN var_index :
              id \in DOMAIN var_index' /\ var_index'[id] = var_index[id]
       /\ (var_status = "live" /\ var_file' # var_file) =>
              IsPrefix(StoredVariants(var_file), StoredVariants(var_file'))
       /\ (/\ last'.op = "map_obligation"
           /\ last'.llm.ok
           /\ last'.llm.response.new_objectives = <<>>) =>
              UNCHANGED <<objectives, obj_index, obj_file>>
      ]_vars

\* C9 witness: Stage 1 matched an obligation to an existing objective whose
\* linked_obligation_ids does not name that obligation
C9_Witness ==
    /\ last.op = "map_obligation"
    /\ last.llm.ok
    /\ last.llm.response.new_objectives = <<>>
    /\ Len(last.ret) = 1
    /\ last.ret[1] \in Range(objectives)
    /\ last.arg \notin Range(last.ret[1].linked_obligation_ids)

\* whether a stored record lacks a key its model requires
Malformed(file, key, required) ==
    /\ file.kind = "object"
    /\ \E i \in 1..Len(DataGet(file, key)) :
           \E k \in required : k \notin DOMAIN DataGet(file, key)[i]

\* what C10 says of one constructor call: file and status before, and the
\* instance, file and status after; failure names the exception expected of
\* an unparsable document and of an unparsable record
ConstructionContract(file, status1, entities1, file1, key, required, failure) ==
    /\ file.kind = "absent" =>
           /\ status1 = "live"
           /\ entities1 = <<>>
           /\ file1 = JsonFile(key, <<>>)
    /\ file.kind = "unparsable" =>
           /\ status1 = failure[1]
           /\ entities1 = <<>>
           /\ file1 = file
    /\ Malformed(file, key, required) =>
           /\ status1 = failure[2]
           /\ entities1 = <<>>
           /\ file1 = file

Workers == {"w1", "w2"}

Idle == [pc |-> "idle"]

\* the creations that hold an ID and have not added it yet
InFlight == Cardinality({w \in Workers : worker[w].pc \in {"generate", "add"}})

\* a worker enters _create_and_register_objective(obj_data, source_obligation)
StartObjectiveCreation(w, obj_data, source_obligation) ==
    /\ worker[w].pc = "idle"
    /\ Room(InFlight + 1)
    /\ worker' = [worker EXCEPT ![w] =
                     [pc |-> "generate", kind |-> "objective", data |-> obj_data,
                      source |-> source_obligation,
                      scope |-> domain_prefix(CreationDomain(obj_data, source_obligation))]]
    /\ UNCHANGED <<obj_vars, var_vars, last, run>>

\* a worker enters _create_and_register_variant(var_data, objective)
StartVariantCreation(w, var_data, objective) ==
    /\ worker[w].pc = "idle"
    /\ Room(InFlight + 1)
    /\ worker' = [worker EXCEPT ![w] =
                     [pc |-> "generate", kind |-> "variant", data |-> var_data,
                      source |-> objective, scope |-> objective.objective_id]]
    /\ UNCHANGED <<obj_vars, var_vars, last, run>>

\* new_id = registry.generate_next_id(...) and the construction of the entity;
\* seen is the sequence the ID was computed from
WorkerGenerate(w) ==
    /\ worker[w].pc = "generate"
    /\ LET it == worker[w]
           new_id == IF it.kind = "objective"
                     THEN Objective_generate_next_id(
                              ObjReg, CreationDomain(it.data, it.source))
                     ELSE Variant_generate_next_id(VarReg, it.source.objective_id)
           entity == IF it.kind = "objective"
                     THEN BuildObjective(new_id, it.data, it.source)
                     ELSE BuildVariant(new_id, it.data, it.source)
       IN  worker' = [worker EXCEPT ![w] =
                         [pc |-> "add", kind |-> it.kind, scope |-> it.scope,
                          new_id |-> new_id, entity |-> entity,
                          seen |-> IF it.kind = "objective" THEN objectives
                                   ELSE variants]]
    /\ UNCHANGED <<obj_vars, var_vars, last, run>>

\* registry.add_objective(objective) or add_variant(variant), and the return
\* of the entity
WorkerAdd(w) ==
    /\ worker[w].pc = "add"
    /\ LET it == worker[w]
           dup == IF it.kind = "objective" THEN it.new_id \in DOMAIN obj_index
                  ELSE it.new_id \in DOMAIN var_index
       IN  /\ IF it.kind = "objective"
              THEN SetObjReg(add_objective(ObjReg, it.entity))
                   /\ UNCHANGED var_vars
              ELSE SetVarReg(add_variant(VarReg, it.entity))
                   /\ UNCHANGED obj_vars
           /\ worker' = [worker EXCEPT ![w] =
                            [pc |-> "done", kind |-> it.kind, scope |-> it.scope,
                             new_id |-> it.new_id, seen |-> it.seen,
                             dup |-> dup, ret |-> it.entity]]
    /\ UNCHANGED <<obj_status, var_status, last, run>>

\* the caller takes the returned entity; the worker is free for another creation
WorkerReturn(w) ==
    /\ worker[w].pc = "done"
    /\ worker' = [worker EXCEPT ![w] = Idle]
    /\ UNCHANGED <<obj_vars, var_vars, last, run>>

\* both registries constructed over paths where no file existed
InitRace ==
    /\ objectives = <<>>
    /\ obj_index = EmptyDict
    /\ obj_file = EnsureRegistryFile(NoFile, "objectives")
    /\ obj_status = "live"
    /\ variants = <<>>
    /\ var_index = EmptyDict
    /\ objective_index = EmptyDict
    /\ var_file = EnsureRegistryFile(NoFile, "control_variants")
    /\ var_status = "live"
    /\ last = [op |-> "none"]
    /\ worker = [w \in Workers |-> Idle]
    /\ run = NoRun

NextRace ==
    \/ \E w \in Workers : \E d \in NewObjectives : \E ob \in Obligations :
           StartObjectiveCreation(w, d, ob)
    \/ \E w \in Workers : \E d \in NewVariants : \E o \in Stage2Objectives :
           StartVariantCreation(w, d, o)
    \/ \E w \in Workers : WorkerGenerate(w)
    \/ \E w \in Workers : WorkerAdd(w)
    \/ \E w \in Workers : WorkerReturn(w)

SpecRace == InitRace /\ [][NextRace]_vars

\* two workers that hold an ID computed for the same scope from the same
\* registry contents
Raced(a, b) ==
    /\ a # b
    /\ worker[a].pc \in {"add", "done"}
    /\ worker[b].pc \in {"add", "done"}
    /\ worker[a].kind = worker[b].kind
    /\ worker[a].scope = worker[b].scope
    /\ worker[a].seen = worker[b].seen

\* C3: generate_next_id reserves nothing (the registry is as before), so two
\* creations for the same domain or objective that generate before either adds
\* hold the same ID; of two such creations that have both added, one was
\* discarded; and an add of an ID the registry already holds changes neither
\* the registry nor its store while its creator returns the entity all the same.
C3_UnserializedCreations ==
    [][/\ \A w \in Workers :
              WorkerGenerate(w) => UNCHANGED <<obj_vars, var_vars>>
       /\ \A a, b \in Workers :
              Raced(a, b)' =>
                  /\ worker'[a].new_id = worker'[b].new_id
                  /\ worker'[a].pc = "done" /\ worker'[b].pc = "done"
                         => worker'[a].dup # worker'[b].dup
       /\ \A w \in Workers :
              WorkerAdd(w) /\ worker'[w].dup =>
                  /\ UNCHANGED <<obj_vars, var_vars>>
                  /\ worker'[w].ret = worker[w].entity]_vars

\* both workers generated OBJ-DATA-1 from the empty registry, both added, the
\* second add was discarded, and the objective it returned is not in the registry
C3_Witness ==
    /\ Raced("w1", "w2")
    /\ worker["w1"].pc = "done" /\ worker["w2"].pc = "done"
    /\ worker["w1"].kind = "objective"
    /\ worker["w1"].new_id = OBJ_DATA_1
    /\ ~worker["w1"].dup /\ worker["w2"].dup
    /\ worker["w2"].ret # worker["w1"].ret
    /\ objectives = <<worker["w1"].ret>>

(***************************************************************************)
(* agents/control_generation.py: a run of generate_controls, one step per  *)
(* LLM call.                                                               *)
(***************************************************************************)
\* the obligation lists and the companies a run is given
ObligationLists == {<<OBL_A>>, <<OBL_A, OBL_B>>, <<OBL_A, OBL_B, OBL_C>>}

Acme == [employee_count |-> <<250>>, jurisdictions |-> <<"SE", "EU">>]
Companies ==
    {Acme,
     [employee_count |-> <<>>, jurisdictions |-> <<>>],
     [employee_count |-> <<1000>>, jurisdictions |-> <<"FR">>]}

\* mapping[key] = value on a dict kept as the sequence of its items
ItemSet(items, key, value) ==
    IF \E i \in 1..Len(items) : items[i].key = key
    THEN [i \in 1..Len(items) |->
             IF items[i].key = key THEN [key |-> key, value |-> value] ELSE items[i]]
    ELSE Append(items, [key |-> key, value |-> value])

\* the objectives of all the mapping's values, in order
RECURSIVE AllMapped(_)
AllMapped(mapping) ==
    IF mapping = <<>> THEN <<>>
    ELSE Head(mapping).value \o AllMapped(Tail(mapping))

\* a list of the mapped objectives that keeps every occurrence
UniqueObjectivesAll(objs, items) == objs

\* unique_objectives[obj.objective_id] = obj over objs, then list(values())
RECURSIVE UniqueObjectives(_, _)
UniqueObjectives(objs, items) ==
    IF objs = <<>> THEN [i \in 1..Len(items) |-> items[i].value]
    ELSE UniqueObjectives(Tail(objs),
                          ItemSet(items, Head(objs).objective_id, Head(objs)))

\* objective_to_obligations.get(objective_id, [])
RECURSIVE ObjectiveToObligations(_, _)
ObjectiveToObligations(mapping, objective_id) ==
    IF mapping = <<>> THEN <<>>
    ELSE LET objs == Head(mapping).value
             hits == SelectSeq(objs, LAMBDA o : o.objective_id = objective_id)
         IN  [i \in 1..Len(hits) |-> Head(mapping).key]
             \o ObjectiveToObligations(Tail(mapping), objective_id)

\* ControlGenerationAgent.__init__: the objective registry, then the variant
\* registry; an exception of the first leaves the second unconstructed
ControlGenerationAgent_init ==
    /\ obj_status = "unborn" /\ var_status = "unborn"
    /\ run.pc = "idle"
    /\ ObjectiveRegistry_init
    /\ IF obj_status' = "live" THEN VariantRegistry_init ELSE UNCHANGED var_vars
    /\ run' = [pc |-> IF obj_status' = "live" /\ var_status' = "live"
                      THEN "ready" ELSE "failed"]
    /\ last' = [op |-> "ControlGenerationAgent"]
    /\ UNCHANGED worker

\* calls of a mapper that asks the LLM again when its call failed
ObligationMapperCallsRetrying(llm) ==
    IF llm.ok THEN <<"stage1">> ELSE <<"stage1", "stage1">>

\* the calls of client.beta.chat.completions.parse that one map_obligation
\* makes: the one in its try block, whether it returns or raises (the except
\* clause returns [] without calling again)
ObligationMapperCalls(llm) == <<"stage1">>

\* the calls of client.beta.chat.completions.parse that one
\* map_objective_to_variant makes: the one in its try block
VariantMapperCalls(llm) == <<"stage2">>

\* generate_controls(obligations, company_context) is entered, once per agent:
\* what an earlier run left behind is what the files of InitGen hold
GenerateControls(obligations, company_context) ==
    /\ run.pc = "ready"
    /\ run' = [pc |-> "stage1", obligations |-> obligations,
               company_context |-> company_context, mapping |-> <<>>,
               todo |-> <<>>, controls |-> <<>>,
               given |-> obligations, answers1 |-> <<>>, answers2 |-> <<>>,
               turns |-> <<>>, calls |-> <<>>,
               empty |-> objectives = <<>> /\ variants = <<>>]
    /\ last' = [op |-> "generate_controls"]
    /\ UNCHANGED <<obj_vars, var_vars, worker>>

\* one turn of the loop of map_obligations_batch
Stage1Step(llm) ==
    /\ run.pc = "stage1"
    /\ run.obligations # <<>>
    /\ llm.ok => Room(Len(llm.response.new_objectives))
    /\ LET obligation == Head(run.obligations)
           done == map_obligation(ObjReg, obligation, llm)
       IN  /\ SetObjReg(done.reg)
           /\ run' = [run EXCEPT
                         !.obligations = Tail(@),
                         !.mapping = ItemSet(@, obligation.obligation_id, done.ret),
                         !.answers1 = Append(@, llm),
                         !.calls = @ \o ObligationMapperCalls(llm)]
           /\ last' = [op |-> "map_obligation", arg |-> obligation.obligation_id,
                       llm |-> llm, ret |-> done.ret,
                       existing_objectives |-> Objective_get_all(ObjReg)]
    /\ UNCHANGED <<obj_status, var_vars, worker>>

\* Stage 1 returns its mapping; generate_controls takes the unique objectives
Stage1Complete ==
    /\ run.pc = "stage1"
    /\ run.obligations = <<>>
    /\ run' = [run EXCEPT !.pc = "stage2",
                          !.todo = UniqueObjectives(AllMapped(run.mapping), <<>>)]
    /\ last' = [op |-> "stage_1_map_obligations_to_objectives"]
    /\ UNCHANGED <<obj_vars, var_vars, worker>>

\* one turn of the loop of stage_2_map_objectives_to_controls
Stage2Step(llm) ==
    /\ run.pc = "stage2"
    /\ run.todo # <<>>
    /\ llm.ok => Room(Len(llm.response.new_variants))
    /\ LET objective == Head(run.todo)
           linked_obligation_ids ==
               ObjectiveToObligations(run.mapping, objective.objective_id)
           mapped == map_objective_to_variant(VarReg, objective, llm)
           built == IF mapped.ret = <<>> THEN [raised |-> FALSE, ret |-> <<>>]
                    ELSE select_variant_and_build_control(
                             mapped.ret[1], run.company_context, linked_obligation_ids)
       IN  /\ SetVarReg(mapped.reg)
           /\ run' = [run EXCEPT
                         !.pc = IF built.raised THEN "raised" ELSE @,
                         !.todo = Tail(@),
                         !.controls = @ \o built.ret,
                         !.answers2 = Append(@, llm),
                         !.calls = @ \o VariantMapperCalls(llm),
                         !.turns = Append(@, [objective |-> objective,
                                              variant |-> mapped.ret,
                                              control |-> built.ret])]
           /\ last' = [op |-> "map_objective_to_variant",
                       arg |-> objective.objective_id, llm |-> llm,
                       ret |-> mapped.ret]
    /\ UNCHANGED <<var_status, obj_vars, worker>>

\* generate_controls returns run.controls
ReturnControls ==
    /\ run.pc = "stage2"
    /\ run.todo = <<>>
    /\ run' = [run EXCEPT !.pc = "returned"]
    /\ last' = [op |-> "return"]
    /\ UNCHANGED <<obj_vars, var_vars, worker>>

\* the files earlier runs left: two objectives; the variant of the first, and
\* a variant without any size tier
HeldObjectivesFile ==
    _save_objectives(<<ParseObjective(SeedObjective).value,
                       ControlObjective(OBJ_DATA_1, "A", "what", Data, None,
                                        <<>>, None)>>)

CV_DATA_1 == CV_ \o <<"D","A","T","A","-","1">>

HeldVariantsFile ==
    _save_variants(<<ControlVariant(CV_TRANS_1, OBJ_TRANS_1, "V", "base",
                                    DataProtection, CanonicalTiers, SeEu),
                     ControlVariant(CV_DATA_1, OBJ_DATA_1, "E", "base", Data,
                                    <<>>, EmptyDict)>>)

InitGen ==
    /\ objectives = <<>>
    /\ obj_index = EmptyDict
    /\ obj_file \in {NoFile, Garbage, HeldObjectivesFile}
    /\ obj_status = "unborn"
    /\ variants = <<>>
    /\ var_index = EmptyDict
    /\ objective_index = EmptyDict
    /\ var_file \in {NoFile, Garbage, HeldVariantsFile}
    /\ var_status = "unborn"
    /\ last = [op |-> "none"]
    /\ worker = NoWorkers
    /\ run = NoRun

\* the Stage 1 answers of a run: those of Stage1Outcomes, and those that name
\* one objective of the catalog twice
RunStage1Outcomes(reg) ==
    Stage1Outcomes(reg) \cup
    {[ok |-> TRUE,
      response |-> [matched_objective_ids |-> <<id, id>>, new_objectives |-> <<>>]] :
        id \in DOMAIN reg.index}

\* a new variant without any size tier
Tierless == NewVariantData("E", <<>>, EmptyDict)

\* the Stage 2 answers of a run: those of Stage2Outcomes, and the tierless variant
RunStage2Outcomes(reg) ==
    Stage2Outcomes(reg) \cup
    {[ok |-> TRUE,
      response |-> [matched_variant_ids |-> <<>>, new_variants |-> <<Tierless>>]]}

NextGen ==
    \/ ControlGenerationAgent_init
    \/ \E obs \in ObligationLists : \E c \in Companies : GenerateControls(obs, c)
    \/ \E llm \in RunStage1Outcomes(ObjReg) : Stage1Step(llm)
    \/ Stage1Complete
    \/ \E llm \in RunStage2Outcomes(VarReg) : Stage2Step(llm)
    \/ ReturnControls

SpecGen == InitGen /\ [][NextGen]_vars

\* the run of the end-to-end scenario has returned: empty registries, the one
\* obligation of domain "Data protection", 250 employees in SE and EU, a Stage 1
\* answer of one new objective and no match, a Stage 2 answer of one new
\* variant with the three canonical tiers
Scenario ==
    /\ run.pc = "returned"
    /\ run.empty
    /\ run.given = <<OBL_A>>
    /\ run.company_context = Acme
    /\ Len(run.answers1) = 1
    /\ run.answers1[1].ok
    /\ run.answers1[1].response.matched_objective_ids = <<>>
    /\ Len(run.answers1[1].response.new_objectives) = 1
    /\ CreationDomain(run.answers1[1].response.new_objectives[1], OBL_A)
           = DataProtection
    /\ Len(run.answers2) = 1
    /\ run.answers2[1].ok
    /\ Len(run.answers2[1].response.new_variants) = 1
    /\ run.answers2[1].response.new_variants[1].variants = CanonicalTiers

DATAPROTECTION_1 == <<"D","A","T","A","P","R","O","T","E","C","T","I","O","N","-","1">>
DATAPROTECTI_1 == <<"D","A","T","A","P","R","O","T","E","C","T","I","-","1">>
SME == <<"-","S","M","E">>

\* what the scenario leaves: one objective, one variant and one control, of
\* these IDs, the control with the review interval of the SME tier
ScenarioOutcome(objective_id, variant_id, control_id) ==
    /\ Len(objectives) = 1
    /\ objectives[1].objective_id = objective_id
    /\ Len(variants) = 1
    /\ variants[1].variant_id = variant_id
    /\ Len(variants[1].variants) = Len(CanonicalTiers)
    /\ Len(run.controls) = 1
    /\ run.controls[1].control_id = control_id
    /\ run.controls[1].review_interval = Sme.review_interval

Stage1Returned == run.pc \in {"stage2", "returned", "raised"}

\* the matched IDs of a response that the held objectives resolve, in order
Resolved(ids, held) ==
    SelectSeq(ids, LAMBDA id : \E i \in 1..Len(held) : held[i].objective_id = id)

\* what the mapping holds for obligation i of the batch, given its answer:
\* nothing for a failure; else as many objectives as the answer's matched IDs
\* resolve and as it has new entries, the new ones linked to this obligation
\* alone and held by the registry
OwnResult(i) ==
    LET answer == run.answers1[i]
        value == run.mapping[i].value
    IN  IF ~answer.ok THEN value = <<>>
        ELSE LET n == Len(answer.response.new_objectives)
                 m == Len(value) - n
             IN  /\ m >= 0
                 /\ m <= Len(answer.response.matched_objective_ids)
                 /\ \A k \in 1..m :
                        value[k].objective_id
                            = answer.response.matched_objective_ids[k]
                 /\ \A k \in 1..n :
                        /\ value[m + k].objective_name
                               = answer.response.new_objectives[k].objective_name
                        /\ value[m + k].linked_obligation_ids
                               = <<run.given[i].obligation_id>>
                        /\ \E j \in 1..Len(objectives) : objectives[j] = value[m + k]

\* C11: a Stage 1 turn whose LLM call fails leaves the objective registry and
\* its file unchanged and the batch goes on; the mapping Stage 1 returns has one
\* key per obligation of the batch, in order, an empty sequence for each failed
\* obligation and, for every other, the objectives its own answer produced.
C11_Stage1Containment ==
    [][/\ \A llm \in {LLMFailure} :
              Stage1Step(llm) =>
                  /\ UNCHANGED <<obj_vars, var_vars>>
                  /\ run'.pc = "stage1"
                  /\ run'.mapping[Len(run'.mapping)]
                         = [key |-> Head(run.obligations).obligation_id,
                            value |-> <<>>]
       /\ Stage1Returned' =>
              /\ Len(run'.mapping) = Len(run'.given)
              /\ \A i \in 1..Len(run'.given) :
                     /\ run'.mapping[i].key = run'.given[i].obligation_id
                     /\ OwnResult(i)']_vars

\* the batch [A, B, C] has returned: the call for B failed, A and C each got
\* an objective from their own answers
C11_Witness ==
    /\ Stage1Returned
    /\ run.given = <<OBL_A, OBL_B, OBL_C>>
    /\ run.answers1[1].ok /\ ~run.answers1[2].ok /\ run.answers1[3].ok
    /\ Len(run.mapping) = Len(run.given)
    /\ run.mapping[1].value # <<>>
    /\ run.mapping[2] = [key |-> "OBL-B", value |-> <<>>]
    /\ run.mapping[3].value # <<>>
    /\ run.mapping[3].value # run.mapping[1].value

(***************************************************************************)
(* The mappers on answers that list several entries, over registries that  *)
(* earlier runs have filled.                                               *)
(***************************************************************************)
\* the sequences over S of length at most MaxListed
Lists(S) == UNION {[1..n -> S] : n \in 0..MaxListed}

\* Stage 1 answers: any matched IDs, of the catalog or not, and any new entries
ListedStage1Outcomes(reg) ==
    {LLMFailure} \cup
    {[ok |-> TRUE,
      response |-> [matched_objective_ids |-> m, new_objectives |-> n]] :
        m \in Lists(DOMAIN reg.index \cup {OBJ_GHOST_9}),
        n \in Lists(NewObjectives)}

\* the new_variants entries of these answers: the canonical one, and one with a
\* single tier and another name
ListedNewVariants == NewVariants \cup {NewVariantData("W", <<Startup>>, EmptyDict)}

\* Stage 2 answers
ListedStage2Outcomes(reg) ==
    {LLMFailure} \cup
    {[ok |-> TRUE,
      response |-> [matched_variant_ids |-> m, new_variants |-> n]] :
        m \in Lists(DOMAIN reg.index \cup {CV_GHOST_9}),
        n \in Lists(ListedNewVariants)}

\* what earlier runs left in the registries
HeldObjectives ==
    {<<>>,
     <<ParseObjective(SeedObjective).value>>,
     <<ParseObjective(SeedObjective).value,
       ControlObjective(OBJ_DATA_1, "A", "what", Data, None, <<>>, None)>>}

HeldVariants ==
    {<<>>,
     <<ControlVariant(CV_TRANS_1, OBJ_TRANS_1, "V", "base", DataProtection,
                      CanonicalTiers, EmptyDict)>>}

\* both registries constructed over the files of those runs
InitMappers ==
    /\ objectives \in HeldObjectives
    /\ obj_index = IndexBy(objectives, "objective_id")
    /\ obj_file = _save_objectives(objectives)
    /\ obj_status = "live"
    /\ variants \in HeldVariants
    /\ var_index = IndexBy(variants, "variant_id")
    /\ objective_index = _build_objective_index(variants)
    /\ var_file = _save_variants(variants)
    /\ var_status = "live"
    /\ Len(objectives) + Len(variants) <= MaxEntities
    /\ last = [op |-> "none"]
    /\ worker = NoWorkers
    /\ run = NoRun

\* one call of a mapper on the registries as found
NextMappers ==
    \/ /\ last.op = "none"
       /\ \E ob \in Obligations : \E llm \in ListedStage1Outcomes(ObjReg) :
              MapObligation(ob, llm)
    \/ /\ last.op = "none"
       /\ \E o \in Stage2Objectives : \E llm \in ListedStage2Outcomes(VarReg) :
              MapObjectiveToVariant(o, llm)

SpecMappers == InitMappers /\ [][NextMappers]_vars

\* C12: map_obligation returns the held objectives that the answer's matched
\* IDs resolve, in the answer's order, then one created objective per new
\* entry, in the answer's order, each registered at the end of the registry;
\* an ID that does not resolve is dropped: the call returns, the objectives
\* held before are as they were, and the other entries are all there.
C12_Stage1Reconciliation ==
    [][(last'.op = "map_obligation" /\ last'.llm.ok) =>
          LET response == last'.llm.response
              found == Resolved(response.matched_objective_ids, objectives)
              news == response.new_objectives
              ret == last'.ret
          IN  /\ Len(ret) = Len(found) + Len(news)
              /\ \A k \in 1..Len(found) :
                     /\ ret[k].objective_id = found[k]
                     /\ ret[k] = obj_index[found[k]]
              /\ Len(objectives') = Len(objectives) + Len(news)
              /\ IsPrefix(objectives, objectives')
              /\ \A k \in 1..Len(news) :
                     /\ ret[Len(found) + k] = objectives'[Len(objectives) + k]
                     /\ ret[Len(found) + k].objective_name = news[k].objective_name
                     /\ ret[Len(found) + k].objective_id \notin DOMAIN obj_index
                     /\ ret[Len(found) + k].linked_obligation_ids = <<last'.arg>>
              /\ news = <<>> => UNCHANGED <<objectives, obj_index, obj_file>>
      ]_vars

\* an answer named an ID that does not resolve, then one that does, and a new
\* objective: the call returned the held objective and the created one
C12_Witness ==
    /\ last.op = "map_obligation"
    /\ last.llm.ok
    /\ last.llm.response.matched_objective_ids = <<OBJ_GHOST_9, OBJ_TRANS_1>>
    /\ Len(last.llm.response.new_objectives) = 1
    /\ Len(last.ret) = Len(objectives)
    /\ last.ret[1] = objectives[1]
    /\ last.ret[1].objective_id = OBJ_TRANS_1
    /\ last.ret[Len(last.ret)] = objectives[Len(objectives)]

\* the controls of the Stage 2 turns so far, in the order of the turns
RECURSIVE ControlsOf(_)
ControlsOf(turns) ==
    IF turns = <<>> THEN <<>>
    ELSE Head(turns).control \o ControlsOf(Tail(turns))

\* C13: a Stage 2 turn that gets no variant (the LLM call failed, or the answer
\* has neither a match that resolves nor a new variant), or a variant without
\* any tier and so no Control, adds nothing and the loop goes on with the next
\* objective; a turn that gets a variant with tiers adds its one Control; the
\* run never raises, and what it returns is the Controls of all its turns.
C13_Stage2Containment ==
    [][/\ \A llm \in RunStage2Outcomes(VarReg) :
              Stage2Step(llm) =>
                  LET turn == run'.turns[Len(run'.turns)]
                      none == \/ turn.variant = <<>>
                              \/ turn.variant[1].variants = <<>>
                  IN  /\ run'.pc = "stage2"
                      /\ run'.todo = Tail(run.todo)
                      /\ ~llm.ok => turn.variant = <<>>
                      /\ (/\ llm.ok
                          /\ llm.response.new_variants = <<>>
                          /\ \A i \in 1..Len(llm.response.matched_variant_ids) :
                                 llm.response.matched_variant_ids[i]
                                     \notin DOMAIN var_index)
                             => turn.variant = <<>>
                      /\ none => run'.controls = run.controls
                      /\ ~none =>
                             /\ Len(run'.controls) = Len(run.controls) + 1
                             /\ IsPrefix(run.controls, run'.controls)
                             /\ StartsWith(
                                    run'.controls[Len(run'.controls)].control_id,
                                    turn.variant[1].variant_id)
       /\ run'.pc # "raised"
       /\ run'.pc = "returned" =>
              /\ run'.todo = <<>>
              /\ run'.controls = ControlsOf(run'.turns)]_vars

\* a run over two objectives has returned: the first turn got no variant, the
\* second its Control
C13_Witness ==
    /\ run.pc = "returned"
    /\ Len(run.turns) = 2
    /\ ~run.answers2[1].ok
    /\ run.turns[1].variant = <<>>
    /\ run.turns[2].control # <<>>
    /\ run.controls = run.turns[2].control

\* a run has returned whose first turn created a variant without tiers and got
\* no Control, and whose second turn got its Control
C13_TierlessSkipped ==
    /\ run.pc = "returned"
    /\ Len(run.turns) = 2
    /\ run.turns[1].variant # <<>>
    /\ run.turns[1].control = <<>>
    /\ run.turns[2].control # <<>>

\* the objective IDs of a sequence of objectives
IdsOf(objs) == [i \in 1..Len(objs) |-> objs[i].objective_id]

\* the distinct entries of ids, each at the place of its first appearance
FirstAppearances(ids) ==
    LET firsts == {i \in 1..Len(ids) : \A j \in 1..(i - 1) : ids[j] # ids[i]}
        nth[k \in 0..Len(ids)] ==
            IF k = 0 THEN 0
            ELSE IF \E i \in firsts : i > nth[k - 1]
                 THEN CHOOSE i \in firsts :
                          /\ i > nth[k - 1]
                          /\ \A j \in firsts : j > nth[k - 1] => i <= j
                 ELSE 0
    IN  [k \in 1..Cardinality(firsts) |-> ids[nth[k]]]

\* C14: Stage 2 takes the distinct objective IDs of the Stage 1 mapping, each
\* once, in the order of their first appearance in the mapping, however many
\* obligations name them; each turn gives at most one Control and the returned
\* sequence is the Controls of the turns in that order.
C14_OncePerObjective ==
    run.pc \in {"stage2", "returned"} =>
        /\ IdsOf([i \in 1..Len(run.turns) |-> run.turns[i].objective])
               \o IdsOf(run.todo)
           = FirstAppearances(IdsOf(AllMapped(run.mapping)))
        /\ \A i \in 1..Len(run.turns) : Len(run.turns[i].control) <= 1
        /\ run.controls = ControlsOf(run.turns)

\* a run has returned in which two obligations each mapped to the same
\* objective: Stage 2 ran once and gave one Control
C14_Witness ==
    /\ run.pc = "returned"
    /\ Len(run.mapping) = 2
    /\ IdsOf(run.mapping[1].value) = <<OBJ_TRANS_1>>
    /\ IdsOf(run.mapping[2].value) = <<OBJ_TRANS_1>>
    /\ Len(run.turns) = 1
    /\ Len(run.controls) = 1

\* the IDs of the obligations whose Stage 1 result holds an objective of this
\* ID, each once, in the order the obligations were processed
Referencing(mapping, objective_id) ==
    LET hits == SelectSeq(mapping,
                          LAMBDA item : \E k \in 1..Len(item.value) :
                                            item.value[k].objective_id = objective_id)
    IN  [i \in 1..Len(hits) |-> hits[i].key]

\* C15: the linked_obligation_ids of the Control built for an objective is the
\* IDs of the obligations whose Stage 1 result contains that objective, each
\* once, in processing order, joined by "; ".
C15_LinkedObligations ==
    Stage1Returned =>
        \A i \in 1..Len(run.turns) :
            run.turns[i].control # <<>> =>
                run.turns[i].control[1].linked_obligation_ids
                    = Join(Referencing(run.mapping,
                                       run.turns[i].objective.objective_id), "; ")

\* a Control links two obligations, in processing order
C15_TwoLinked ==
    /\ Stage1Returned
    /\ \E i \in 1..Len(run.turns) :
           /\ run.turns[i].control # <<>>
           /\ run.turns[i].control[1].linked_obligation_ids
                  = <<"OBL-A", "; ", "OBL-B">>

(***************************************************************************)
(* select_variant_and_build_control on variants and companies of all       *)
(* shapes.                                                                 *)
(***************************************************************************)
\* tiers beside the canonical ones: one that applies to every company, one
\* whose applies_if is no expression, one whose applies_if names a variable the
\* evaluation context does not have, one without the applies_if key
AnyTier == Tier(<<"a","n","y">>, Cmp("employee_count", ">=", 0), "1 month")
BrokenTier == Tier(<<"b","r","o","k","e","n">>, SyntaxErr, "2 months")
AlienTier == Tier(<<"a","l","i","e","n">>, Cmp("revenue", ">", 0), "4 months")
BareTier ==
    [variant_type |-> <<"b","a","r","e">>, description_additions |-> "",
     evidence_requirements |-> <<>>]

TierPool == {Startup, Sme, Enterprise, AnyTier, BrokenTier, AlienTier, BareTier}

\* the tier lists of a variant
TierLists == UNION {[1..n -> TierPool] : n \in 0..MaxTiers}

\* jurisdiction_requirements = {"SE": ["req1", "req3"], "EU": ["req2"]}
SeTwo == [c \in {"SE", "EU"} |-> IF c = "SE" THEN <<"req1", "req3">> ELSE <<"req2">>]

\* the companies: their size, and the jurisdictions they list
Sizes == {<<>>, <<0>>, <<49>>, <<250>>, <<1000>>}
JurisdictionLists == {<<>>, <<"SE", "EU">>, <<"EU", "SE">>, <<"FR", "SE">>}

\* variant_mapper.select_variant_and_build_control(variant, company_context,
\* linked_obligation_ids)
SelectAndBuild(variant, company_context, linked_obligation_ids) ==
    /\ last.op = "none"
    /\ LET built == select_variant_and_build_control(
                        variant, company_context, linked_obligation_ids)
       IN  last' = [op |-> "select_variant_and_build_control",
                    variant |-> variant, company_context |-> company_context,
                    linked_obligation_ids |-> linked_obligation_ids,
                    raised |-> built.raised, ret |-> built.ret]
    /\ UNCHANGED <<obj_vars, var_vars, worker, run>>

\* no registry is involved
InitSelect ==
    /\ objectives = <<>>
    /\ obj_index = EmptyDict
    /\ obj_file = NoFile
    /\ obj_status = "unborn"
    /\ variants = <<>>
    /\ var_index = EmptyDict
    /\ objective_index = EmptyDict
    /\ var_file = NoFile
    /\ var_status = "unborn"
    /\ last = [op |-> "none"]
    /\ worker = NoWorkers
    /\ run = NoRun

NextSelect ==
    /\ last.op = "none"
    /\ \E tiers \in TierLists : \E jr \in {EmptyDict, SeEu, SeTwo} :
       \E size \in Sizes : \E js \in JurisdictionLists :
        SelectAndBuild(
            ControlVariant(CV_TRANS_1, OBJ_TRANS_1, "V", "base", DataProtection,
                           tiers, jr),
            [employee_count |-> size, jurisdictions |-> js],
            <<"OBL-A", "OBL-B">>)

SpecSelect == InitSelect /\ [][NextSelect]_vars

\* the call of select_variant_and_build_control that last records
Selected == last.op = "select_variant_and_build_control"

\* whether the applies_if of tier i evaluates true for the company's size; a
\* tier without the key, an evaluation that raises, and False are all not true
Applies(i) ==
    /\ "applies_if" \in DOMAIN last.variant.variants[i]
    /\ Eval(last.variant.variants[i].applies_if,
            [employee_count |-> IF last.company_context.employee_count = <<>>
                                THEN 0
                                ELSE last.company_context.employee_count[1]])
           = "True"

\* the Control returned is the one of tier i
BuiltFrom(i) ==
    /\ ~last.raised
    /\ Len(last.ret) = 1
    /\ last.ret[1].control_id
           = last.variant.variant_id \o <<"-">>
                 \o Upper(last.variant.variants[i].variant_type)
    /\ last.ret[1].review_interval
           = (IF "review_interval" \in DOMAIN last.variant.variants[i]
              THEN last.variant.variants[i].review_interval ELSE "12 months")

\* C16: the tier selected is the lowest-index tier whose applies_if evaluates
\* true for the company's employee_count, whatever tiers come after it and
\* whatever the evaluation of the tiers before it did (false, or raised);
\* with the three canonical conditions and 250 employees it is the second, and
\* control_id is {variant_id}-SME.
C16_FirstMatch ==
    Selected =>
        /\ \A i \in 1..Len(last.variant.variants) :
               (Applies(i) /\ \A j \in 1..(i - 1) : ~Applies(j)) => BuiltFrom(i)
        /\ (/\ last.variant.variants = CanonicalTiers
            /\ last.company_context.employee_count = <<250>>) =>
               /\ BuiltFrom(2)
               /\ last.ret[1].control_id = CV_TRANS_1 \o SME

\* the scan went past a tier whose evaluation raised and one that was false,
\* and took the SME tier although a later tier applies too
C16_Witness ==
    /\ Selected
    /\ last.variant.variants = <<BrokenTier, Sme, AnyTier>>
    /\ last.company_context.employee_count = <<250>>
    /\ Applies(2) /\ Applies(3) /\ ~Applies(1)
    /\ last.ret[1].control_id = CV_TRANS_1 \o SME

\* C17: when no tier's applies_if evaluates true (every one false, raising or
\* missing) and the variant has a tier, the first tier is used and a Control is
\* returned; when the variant has no tier, the call returns no Control; in
\* neither case does it raise.
C17_FallbackToFirst ==
    (Selected /\ \A i \in 1..Len(last.variant.variants) : ~Applies(i)) =>
        /\ ~last.raised
        /\ last.variant.variants # <<>> => BuiltFrom(1)
        /\ last.variant.variants = <<>> => last.ret = <<>>

\* every condition is malformed and the first tier, which differs from the
\* second, made the Control
C17_Witness ==
    /\ Selected
    /\ last.variant.variants = <<AlienTier, BrokenTier, BareTier>>
    /\ ~last.raised
    /\ last.ret # <<>>
    /\ last.ret[1].control_id = CV_TRANS_1 \o <<"-">> \o Upper(AlienTier.variant_type)

\* the variant has no tier and the call returned no Control
C17_EmptyWitness ==
    /\ Selected
    /\ last.variant.variants = <<>>
    /\ ~last.raised
    /\ last.ret = <<>>

\* the requirement lines the description is to carry: for each jurisdiction of
\* the company, from the last one back, the variant's lines for it
RECURSIVE ExpectedRequirements(_, _)
ExpectedRequirements(listed, declared) ==
    IF listed = <<>> THEN <<>>
    ELSE LET n == Len(listed)
         IN  ExpectedRequirements(SubSeq(listed, 1, n - 1), declared)
             \o (IF listed[n] \in DOMAIN declared THEN declared[listed[n]] ELSE <<>>)

\* the requirement lines a Control's description carries, in order of
\* appearance: what follows its "Jurisdiction-specific requirements:" heading
RequirementLines(description) ==
    LET headings == {i \in 1..Len(description) :
                        description[i] = "\n\nJurisdiction-specific requirements:\n"}
    IN  IF headings = {} THEN <<>>
        ELSE SubSeq(description, (CHOOSE i \in headings : TRUE) + 1,
                    Len(description))

\* C18: the requirement lines of a Control's description are those of the
\* variant's jurisdiction_requirements entries whose code the company lists,
\* taken in the order of the company's jurisdictions and, within one
\* jurisdiction, in the order the variant declares them; no line of a
\* jurisdiction the company does not list appears.  For {SE: [req1],
\* EU: [req2]} and jurisdictions [SE, EU] they are req1 then req2.
C18_JurisdictionAssembly ==
    (Selected /\ last.ret # <<>>) =>
        LET listed == last.company_context.jurisdictions
            declared == last.variant.jurisdiction_requirements
            lines == RequirementLines(last.ret[1].control_description)
        IN  /\ lines = Bullets(ExpectedRequirements(listed, declared))
            /\ \A c \in DOMAIN declared :
                   (\A i \in 1..Len(listed) : listed[i] # c) =>
                       \A k \in 1..Len(declared[c]) : \A l \in 1..Len(lines) :
                           lines[l] # declared[c][k]
            /\ (declared = SeEu /\ listed = <<"SE", "EU">>) =>
                   lines = Bullets(<<"req1", "req2">>)

\* the company lists EU before SE and a jurisdiction the variant lacks; the
\* variant declares two lines for SE
C18_Witness ==
    /\ Selected
    /\ last.ret # <<>>
    /\ last.variant.jurisdiction_requirements = SeTwo
    /\ last.company_context.jurisdictions = <<"EU", "SE">>
    /\ RequirementLines(last.ret[1].control_description)
           = Bullets(<<"req2", "req1", "req3">>)

\* the company lists only one of the variant's jurisdictions: the other's
\* line is absent
C18_UnlistedWitness ==
    /\ Selected
    /\ last.ret # <<>>
    /\ last.variant.jurisdiction_requirements = SeEu
    /\ last.company_context.jurisdictions = <<"FR", "SE">>
    /\ RequirementLines(last.ret[1].control_description) = Bullets(<<"req1">>)

\* the answered call of map_objective_to_variant that the step makes
Stage2Answered == last'.op = "map_objective_to_variant" /\ last'.llm.ok

\* the step leaves the variant registry and its file as they were
VariantRegistryKept == UNCHANGED <<variants, var_index, objective_index, var_file>>

\* C19: when the first matched variant ID of the answer resolves, that held
\* variant is returned and the variant registry and its file are unchanged,
\* whatever new_variants holds; when the answer has neither matched IDs nor new
\* variants, the call returns no variant and the registry is unchanged.
C19_MatchWins ==
    [][Stage2Answered =>
        LET matched == last'.llm.response.matched_variant_ids
            new_variants == last'.llm.response.new_variants
        IN  /\ (matched # <<>> /\ matched[1] \in DOMAIN var_index) =>
                   /\ last'.ret = <<var_index[matched[1]]>>
                   /\ VariantRegistryKept
            /\ (matched = <<>> /\ new_variants = <<>>) =>
                   /\ last'.ret = <<>>
                   /\ VariantRegistryKept]_vars

\* the answer named a held variant first and proposed a new one as well
C19_Witness ==
    /\ last.op = "map_objective_to_variant"
    /\ last.llm.ok
    /\ last.llm.response.matched_variant_ids = <<CV_TRANS_1>>
    /\ last.llm.response.new_variants # <<>>
    /\ Len(last.ret) = 1
    /\ last.ret[1].variant_id = CV_TRANS_1
    /\ Len(variants) = 1

\* C20: when the answer's first matched variant ID does not resolve, no later
\* matched ID is looked up: with new variants proposed, the first of them is
\* created under a fresh ID for the objective, appended to the registry, saved
\* and returned; with none proposed, the call returns no variant and the
\* registry is unchanged, even if a later matched ID resolves.
C20_FirstMatchOnly ==
    [][Stage2Answered =>
        LET matched == last'.llm.response.matched_variant_ids
            new_variants == last'.llm.response.new_variants
        IN  (matched # <<>> /\ matched[1] \notin DOMAIN var_index) =>
                /\ new_variants # <<>> =>
                       /\ Len(last'.ret) = 1
                       /\ last'.ret[1].variant_id \notin DOMAIN var_index
                       /\ last'.ret[1].variant_name = new_variants[1].variant_name
                       /\ last'.ret[1].variants = new_variants[1].variants
                       /\ last'.ret[1].objective_id = last'.arg
                       /\ variants' = Append(variants, last'.ret[1])
                       /\ var_index' = IndexBy(variants', "variant_id")
                       /\ var_file' = _save_variants(variants')
                /\ new_variants = <<>> =>
                       /\ last'.ret = <<>>
                       /\ VariantRegistryKept]_vars

\* the first matched ID is unknown, the second is held, and the first proposed
\* variant was created instead
C20_Witness ==
    /\ last.op = "map_objective_to_variant"
    /\ last.llm.ok
    /\ last.llm.response.matched_variant_ids = <<CV_GHOST_9, CV_TRANS_1>>
    /\ last.llm.response.new_variants # <<>>
    /\ Len(variants) = 2
    /\ last.ret = <<variants[2]>>
    /\ variants[1].variant_id = CV_TRANS_1

\* the first matched ID is unknown, the second is held, nothing is proposed:
\* no variant is returned
C20_AbsentWitness ==
    /\ last.op = "map_objective_to_variant"
    /\ last.llm.ok
    /\ last.llm.response.matched_variant_ids = <<CV_GHOST_9, CV_TRANS_1>>
    /\ last.llm.response.new_variants = <<>>
    /\ last.ret = <<>>
    /\ Len(variants) = 1

\* the step is a turn of the loop of map_obligations_batch
BatchTurn == run.pc = "stage1" /\ last'.op = "map_obligation"

\* C21: map_obligations_batch takes the obligations one at a time in input
\* order, and the catalog of existing objectives that a turn puts before the
\* LLM is the registry's sequence at that moment, which holds every objective
\* the earlier turns of the batch returned, created ones included; so a later
\* obligation can match by ID an objective created for an earlier one.
C21_BatchCatalog ==
    [][BatchTurn =>
        LET k == Len(run.mapping) + 1
        IN  /\ k <= Len(run.given)
            /\ last'.arg = run.given[k].obligation_id
            /\ Len(run'.mapping) = k
            /\ run'.mapping[k].key = last'.arg
            /\ last'.existing_objectives = objectives
            /\ \A i \in 1..(k - 1) : \A j \in 1..Len(run.mapping[i].value) :
                   \E c \in 1..Len(last'.existing_objectives) :
                       last'.existing_objectives[c] = run.mapping[i].value[j]]_vars

\* from empty registries, the first obligation had an objective created, the
\* second obligation's catalog held it, the answer matched it by ID, and the
\* second obligation is mapped to that same objective
C21_Witness ==
    /\ run.pc = "stage1"
    /\ run.empty
    /\ last.op = "map_obligation"
    /\ Len(run.mapping) = 2
    /\ run.answers1[1].ok
    /\ run.answers1[1].response.matched_objective_ids = <<>>
    /\ Len(run.answers1[1].response.new_objectives) = 1
    /\ last.existing_objectives = run.mapping[1].value
    /\ last.llm.ok
    /\ last.llm.response.matched_objective_ids
           = <<run.mapping[1].value[1].objective_id>>
    /\ last.llm.response.new_objectives = <<>>
    /\ run.mapping[2].value = run.mapping[1].value

\* the step is an answered map_objective_to_variant that had to create: the
\* answer's first matched ID, if any, was not held, and it proposed a variant
VariantCreated ==
    /\ Stage2Answered
    /\ \/ last'.llm.response.matched_variant_ids = <<>>
       \/ last'.llm.response.matched_variant_ids[1] \notin DOMAIN var_index
    /\ last'.llm.response.new_variants # <<>>

\* C22: every objective that map_obligation creates, and the variant that
\* map_objective_to_variant creates, is returned under an ID that the registry
\* did not hold before the call and is afterwards what get_by_id returns for
\* that ID: add never discards a created entity.
C22_CreatedIsStored ==
    [][/\ (last'.op = "map_obligation" /\ last'.llm.ok) =>
              LET n == Len(last'.llm.response.new_objectives)
                  m == Len(last'.ret) - n
              IN  /\ m >= 0
                  /\ \A k \in 1..n :
                         LET created == last'.ret[m + k]
                         IN  /\ created.objective_id \notin DOMAIN obj_index
                             /\ Objective_get_by_id(ObjReg', created.objective_id)
                                    = created
                             /\ \E i \in 1..Len(objectives') :
                                    objectives'[i] = created
       /\ VariantCreated =>
              /\ Len(last'.ret) = 1
              /\ last'.ret[1].variant_id \notin DOMAIN var_index
              /\ Variant_get_by_id(VarReg', last'.ret[1].variant_id) = last'.ret[1]
              /\ \E i \in 1..Len(variants') : variants'[i] = last'.ret[1]
      ]_vars

\* an objective was created in a domain whose prefix an earlier objective
\* shares, and it is held under the next number
C22_Witness ==
    /\ last.op = "map_obligation"
    /\ last.llm.ok
    /\ Len(last.llm.response.new_objectives) = 1
    /\ Len(objectives) = 2
    /\ last.ret[Len(last.ret)] = objectives[2]
    /\ domain_prefix(objectives[1].domain) = domain_prefix(objectives[2].domain)
    /\ objectives[1].objective_id # objectives[2].objective_id
    /\ obj_index[objectives[2].objective_id] = objectives[2]

\* a second variant was created for an objective and is held beside the first
C22_VariantWitness ==
    /\ last.op = "map_objective_to_variant"
    /\ last.llm.ok
    /\ last.llm.response.new_variants # <<>>
    /\ Len(variants) = 2
    /\ last.ret = <<variants[2]>>
    /\ variants[1].objective_id = variants[2].objective_id
    /\ variants[1].variant_id # variants[2].variant_id
    /\ var_index[variants[2].variant_id] = variants[2]

\* C23: the Controls that a generate_controls run returns have pairwise
\* distinct control_ids.
C23_DistinctControlIds ==
    run.pc = "returned" =>
        \A i, j \in 1..Len(run.controls) :
            run.controls[i].control_id = run.controls[j].control_id => i = j

\* C24: the variant a Stage 2 turn gets for an objective has the objective's
\* domain, and so has the Control built from it.
C24_DomainKept ==
    Stage1Returned =>
        \A i \in 1..Len(run.turns) :
            /\ run.turns[i].variant # <<>> =>
                   run.turns[i].variant[1].domain = run.turns[i].objective.domain
            /\ run.turns[i].control # <<>> =>
                   run.turns[i].control[1].domain = run.turns[i].objective.domain

\* C24, the part that holds: a variant created in a turn copies the
\* objective's domain, and a Control copies its variant's domain
C24_CreatedCopiesDomain ==
    Stage1Returned =>
        \A i \in 1..Len(run.turns) :
            /\ (/\ run.answers2[i].ok
                /\ run.answers2[i].response.matched_variant_ids = <<>>
                /\ run.turns[i].variant # <<>>) =>
                   run.turns[i].variant[1].domain = run.turns[i].objective.domain
            /\ run.turns[i].control # <<>> =>
                   run.turns[i].control[1].domain = run.turns[i].variant[1].domain

(***************************************************************************)
(* ObjectiveRegistry.generate_next_id over stores of all shapes.           *)
(***************************************************************************)
\* objective IDs a store may hold: numbered ones, with a gap; one of a longer
\* prefix; ones whose last segment is no number; one of another domain
HeldIds ==
    {OBJ_DATA_1,
     OBJ_ \o <<"D","A","T","A","-","7">>,
     OBJ_ \o <<"D","A","T","A","-","x">>,
     OBJ_ \o <<"D","A","T","A">>,
     OBJ_ \o <<"D","A","T","A","P","R","O","T","E","C","T","I","-","3">>,
     OBJ_ \o <<"D","A","T","A","F","L","O","W","-","1","2">>,
     OBJ_TRANS_1}

\* the stores: sequences of objectives of pairwise distinct IDs
HeldStores ==
    {ids \in UNION {[1..n -> HeldIds] : n \in 0..MaxHeld} :
        \A i, j \in 1..Len(ids) : ids[i] = ids[j] => i = j}

\* a domain with a hyphen in it
DataFlow == <<"D","a","t","a","-","f","l","o","w">>

\* an objective registry constructed over such a store
InitIds ==
    /\ \E ids \in HeldStores :
           objectives = [i \in 1..Len(ids) |->
                            ControlObjective(ids[i], "A", "what", Data, None,
                                             <<>>, None)]
    /\ obj_index = IndexBy(objectives, "objective_id")
    /\ obj_file = _save_objectives(objectives)
    /\ obj_status = "live"
    /\ variants = <<>>
    /\ var_index = EmptyDict
    /\ objective_index = EmptyDict
    /\ var_file = NoFile
    /\ var_status = "unborn"
    /\ last = [op |-> "none"]
    /\ worker = NoWorkers
    /\ run = NoRun

\* one call of generate_next_id
NextIds ==
    /\ last.op = "none"
    /\ \E d \in Domains \cup {DataFlow, EmptyStr} : GenerateObjectiveId(d)

SpecIds == InitIds /\ [][NextIds]_vars

\* the prefix C25 describes: the characters of the uppercased domain that are
\* neither a space nor a hyphen, the first 12 of them
C25_Prefix(domain) ==
    LET kept == SelectSeq(Upper(domain), LAMBDA c : c \notin {" ", "-"})
    IN  [i \in 1..(IF Len(kept) < 12 THEN Len(kept) ELSE 12) |-> kept[i]]

\* the segment of an ID after its last hyphen
TrailingSegment(id) ==
    LET hyphens == {i \in 1..Len(id) : id[i] = "-"}
        k == IF hyphens = {} THEN 0 ELSE Max(hyphens)
    IN  SubSeq(id, k + 1, Len(id))

\* whether a segment is a number
Numeric(seg) == seg # <<>> /\ \A i \in 1..Len(seg) : seg[i] \in Range(Digit)

\* the largest numeric trailing segment among the held IDs that start with
\* start, 0 when there is none
C25_Largest(start) ==
    LET mine == {id \in DOMAIN obj_index :
                    /\ Len(id) >= Len(start)
                    /\ SubSeq(id, 1, Len(start)) = start
                    /\ Numeric(TrailingSegment(id))}
    IN  IF mine = {} THEN 0
        ELSE Max({DigitsValue(TrailingSegment(id)) : id \in mine})

C25_CutWitness ==
    /\ last.op = "Objective.generate_next_id"
    /\ last.arg = DataProtection
    /\ OBJ_ \o <<"D","A","T","A","P","R","O","T","E","C","T","I","-","3">>
           \in DOMAIN obj_index
    /\ last.ret = OBJ_ \o <<"D","A","T","A","P","R","O","T","E","C","T","I","-","4">>

(***************************************************************************)
(* The canonical tiers over the employee counts.                           *)
(***************************************************************************)
\* one call of select_variant_and_build_control on a variant with the three
\* canonical tiers, for a company of any size or of none
NextCanonical ==
    /\ last.op = "none"
    /\ \E size \in {<<>>} \cup {<<n>> : n \in 0..MaxCount} :
           SelectAndBuild(
               ControlVariant(CV_TRANS_1, OBJ_TRANS_1, "V", "base", DataProtection,
                              CanonicalTiers, SeEu),
               [employee_count |-> size, jurisdictions |-> <<>>],
               <<"OBL-A">>)

SpecCanonical == InitSelect /\ [][NextCanonical]_vars

\* the tier C26 names for an employee count
C26_Tier(size) ==
    IF size = <<>> THEN 1
    ELSE IF size[1] <= 49 THEN 1
    ELSE IF size[1] <= 999 THEN 2
    ELSE 3

\* C26: with the canonical conditions in the order startup, SME, enterprise,
\* exactly one condition is true for every employee_count from 0 up and for a
\* missing one, so no selection is a fallback: 0..49 and a missing count take
\* startup, 50..999 take SME, 1000 and more take enterprise.
C26_CanonicalPartition ==
    (Selected /\ last.variant.variants = CanonicalTiers) =>
        LET t == C26_Tier(last.company_context.employee_count)
        IN  /\ \A i \in 1..3 : Applies(i) <=> i = t
            /\ BuiltFrom(t)
            /\ last.ret[1].control_id
                   = CV_TRANS_1 \o <<"-">>
                       \o Upper(CASE t = 1 -> <<"s","t","a","r","t","u","p">>
                                  [] t = 2 -> <<"s","m","e">>
                                  [] t = 3 -> <<"e","n","t","e","r","p","r","i","s","e">>)

\* the boundary counts: 49 takes startup, 50 and 999 SME, 1000 enterprise
C26_Witness ==
    /\ Selected
    /\ last.company_context.employee_count = <<999>>
    /\ last.ret[1].control_id = CV_TRANS_1 \o SME
    /\ Applies(2) /\ ~Applies(3)

C26_WitnessThousand ==
    /\ Selected
    /\ last.company_context.employee_count = <<1000>>
    /\ last.ret[1].review_interval = "3 months"
    /\ Applies(3) /\ ~Applies(2)

C26_WitnessMissing ==
    /\ Selected
    /\ last.company_context.employee_count = <<>>
    /\ last.ret[1].review_interval = "12 months"
    /\ Applies(1)

(***************************************************************************)
(* The variant registry over stores of all shapes, and the adds on it.     *)
(***************************************************************************)
\* variants of three IDs for two objectives
VariantPool ==
    {ControlVariant(id, o, "V", "base", Data, <<>>, EmptyDict) :
        id \in {CV_TRANS_1, CV_TRANS_1_7, CV_DATA_1},
        o \in {OBJ_TRANS_1, OBJ_DATA_1}}

\* the stores: no file, or a document of up to MaxHeld variants, in any order
\* and with repeated IDs
VariantStores ==
    {NoFile} \cup
    {_save_variants(vs) : vs \in UNION {[1..n -> VariantPool] : n \in 0..MaxHeld}}

InitVariants ==
    /\ objectives = <<>>
    /\ obj_index = EmptyDict
    /\ obj_file = NoFile
    /\ obj_status = "unborn"
    /\ variants = <<>>
    /\ var_index = EmptyDict
    /\ objective_index = EmptyDict
    /\ var_file \in VariantStores
    /\ var_status = "unborn"
    /\ last = [op |-> "none"]
    /\ worker = NoWorkers
    /\ run = NoRun

\* the registry is constructed, and variants are added to it
NextVariants ==
    \/ var_status = "unborn" /\ NewVariantRegistry
    \/ \E v \in VariantPool : AddVariant(v)

SpecVariants == InitVariants /\ [][NextVariants]_vars

\* C27: in a constructed variant registry, get_by_objective(o) is the
\* subsequence of get_all() of the variants whose objective_id is o, in
\* get_all()'s order, and get_by_id(id) is an element of get_all() that carries
\* the ID, or None exactly when get_all() holds no such element.
C27_IndexesAgree ==
    var_status = "live" =>
        /\ \A o \in {OBJ_TRANS_1, OBJ_DATA_1, OBJ_GHOST_9} :
               get_by_objective(VarReg, o)
                   = SelectSeq(variants, LAMBDA v : v.objective_id = o)
        /\ \A id \in {CV_TRANS_1, CV_TRANS_1_7, CV_DATA_1, CV_GHOST_9} :
               IF \E i \in 1..Len(variants) : variants[i].variant_id = id
               THEN \E i \in 1..Len(variants) :
                        /\ variants[i].variant_id = id
                        /\ Variant_get_by_id(VarReg, id) = variants[i]
               ELSE Variant_get_by_id(VarReg, id) = None

\* a variant was added for the objective of the variant that the store held:
\* both are found by objective, in order, and each by its ID
C27_Witness ==
    /\ var_status = "live"
    /\ last.op = "add_variant"
    /\ ~last.dup
    /\ Len(variants) = 2
    /\ variants[1].variant_id = CV_TRANS_1
    /\ variants[2] = last.arg
    /\ variants[2].variant_id = CV_TRANS_1_7
    /\ variants[1].objective_id = OBJ_TRANS_1
    /\ variants[2].objective_id = OBJ_TRANS_1
    /\ get_by_objective(VarReg, OBJ_TRANS_1) = variants
    /\ Variant_get_by_id(VarReg, CV_TRANS_1_7) = variants[2]

\* the store held variants of the two objectives in alternation, two of them
\* under one ID: get_by_objective skips the other objective's variant, and
\* get_by_id gives one of the two
C27_LoadWitness ==
    /\ var_status = "live"
    /\ last.op = "VariantRegistry"
    /\ Len(variants) = 3
    /\ variants[1].objective_id = OBJ_TRANS_1
    /\ variants[2].objective_id = OBJ_DATA_1
    /\ variants[3].objective_id = OBJ_TRANS_1
    /\ variants[1].variant_id = variants[2].variant_id
    /\ get_by_objective(VarReg, OBJ_TRANS_1) = <<variants[1], variants[3]>>
    /\ Variant_get_by_id(VarReg, variants[1].variant_id) = variants[2]

(***************************************************************************)
(* The LLM calls of a run, and its termination.                            *)
(***************************************************************************)
\* the steps of a run for one company: the LLM calls do not depend on it
NextGenLive ==
    \/ ControlGenerationAgent_init
    \/ \E obs \in ObligationLists : GenerateControls(obs, Acme)
    \/ \E llm \in RunStage1Outcomes(ObjReg) : Stage1Step(llm)
    \/ Stage1Complete
    \/ \E llm \in RunStage2Outcomes(VarReg) : Stage2Step(llm)
    \/ ReturnControls

\* a run in which every step that can be taken is taken: each LLM call
\* returns or fails, and the code goes on
SpecGenLive == InitGen /\ [][NextGenLive]_vars /\ WF_vars(NextGenLive)

\* a sequence of n times x
Times(n, x) == [i \in 1..n |-> x]

\* the distinct objective IDs of a Stage 1 mapping
DistinctObjectives(mapping) ==
    {AllMapped(mapping)[i].objective_id : i \in 1..Len(AllMapped(mapping))}

\* C28: each map_obligation and each map_objective_to_variant of a run makes
\* exactly one LLM call, failed or not; a run over n obligations that yields m
\* distinct objectives has made, when it returns, n Stage 1 calls followed by
\* m Stage 2 calls and no other; and a run that was entered returns.
C28_CallsAndTermination ==
    /\ [][/\ (run.pc = "stage1" /\ last'.op = "map_obligation") =>
                 run'.calls = Append(run.calls, "stage1")
          /\ (run.pc = "stage2" /\ last'.op = "map_objective_to_variant") =>
                 run'.calls = Append(run.calls, "stage2")
          /\ run'.pc = "returned" =>
                 run'.calls
                     = Times(Len(run'.given), "stage1")
                       \o Times(Cardinality(DistinctObjectives(run'.mapping)),
                                "stage2")]_vars
    /\ (run.pc = "stage1") ~> (run.pc = "returned")

\* a run over three obligations, one of whose calls failed, that yielded two
\* objectives has returned after five calls
C28_Witness ==
    /\ run.pc = "returned"
    /\ Len(run.given) = 3
    /\ \E i \in 1..3 : ~run.answers1[i].ok
    /\ Cardinality(DistinctObjectives(run.mapping)) = 2
    /\ run.calls = <<"stage1", "stage1", "stage1", "stage2", "stage2">>

(***************************************************************************)
(* Two ObjectiveRegistry instances over one file.  worker[w] is the        *)
(* instance of process w: [pc |-> "unborn"] before its constructor ran,    *)
(* then its in-memory sequence and ID map; obj_file is the file both use.  *)
(***************************************************************************)
Unborn == [pc |-> "unborn"]

\* objectives of three IDs
ObjectivePool ==
    {ControlObjective(id, "A", "what", Data, None, <<>>, None) :
        id \in {OBJ_DATA_1, OBJ_TRANS_1, OBJ_GHOST_9}}

\* ObjectiveRegistry(path) in process w
InstanceInit(w) ==
    /\ worker[w].pc = "unborn"
    /\ LET loaded == _load_objectives(obj_file)
       IN  IF loaded.ok
           THEN /\ worker' = [worker EXCEPT ![w] =
                                 [pc |-> "live", objectives |-> loaded.value,
                                  index |-> IndexBy(loaded.value, "objective_id")]]
                /\ obj_file' = EnsureRegistryFile(obj_file, "objectives")
           ELSE /\ worker' = [worker EXCEPT ![w] = [pc |-> loaded.value]]
                /\ obj_file' = obj_file
    /\ last' = [op |-> "ObjectiveRegistry", by |-> w]
    /\ UNCHANGED <<objectives, obj_index, obj_status, var_vars, run>>

\* objective_registry.add_objective(o) on the instance of process w
InstanceAdd(w, o) ==
    /\ worker[w].pc = "live"
    /\ \/ o.objective_id \in DOMAIN worker[w].index
       \/ Len(worker[w].objectives) < MaxEntities
    /\ LET done == add_objective([objectives |-> worker[w].objectives,
                                  index |-> worker[w].index, file |-> obj_file], o)
       IN  /\ worker' = [worker EXCEPT ![w] =
                            [pc |-> "live", objectives |-> done.objectives,
                             index |-> done.index]]
           /\ obj_file' = done.file
    /\ last' = [op |-> "add_objective", by |-> w, arg |-> o,
                dup |-> o.objective_id \in DOMAIN worker[w].index]
    /\ UNCHANGED <<objectives, obj_index, obj_status, var_vars, run>>

\* no instance yet; the file is absent or holds one objective
InitWriters ==
    /\ objectives = <<>>
    /\ obj_index = EmptyDict
    /\ obj_file \in {NoFile} \cup {_save_objectives(<<o>>) : o \in ObjectivePool}
    /\ obj_status = "unborn"
    /\ variants = <<>>
    /\ var_index = EmptyDict
    /\ objective_index = EmptyDict
    /\ var_file = NoFile
    /\ var_status = "unborn"
    /\ last = [op |-> "none"]
    /\ worker = [w \in Workers |-> Unborn]
    /\ run = NoRun

NextWriters ==
    \/ \E w \in Workers : InstanceInit(w)
    \/ \E w \in Workers : \E o \in ObjectivePool : InstanceAdd(w, o)

SpecWriters == InitWriters /\ [][NextWriters]_vars

\* whether the file holds an objective of this ID
InStore(file, objective_id) ==
    \E i \in 1..Len(StoredObjectives(file)) :
        StoredObjectives(file)[i].objective_id = objective_id

\* C29: an add that changes an instance rewrites the whole file from that
\* instance's in-memory sequence alone: afterwards the file holds exactly that
\* sequence, so every objective that only the other instance holds, having
\* added it since this one loaded, is missing from the file; while no other
\* instance exists, the file lacks nothing that was added.
C29_SingleWriterOnly ==
    [][(last'.op = "add_objective" /\ ~last'.dup) =>
        LET p == last'.by
        IN  /\ StoredObjectives(obj_file') = worker'[p].objectives
            /\ \A q \in Workers \ {p} :
                   worker[q].pc = "live" =>
                       \A i \in 1..Len(worker[q].objectives) :
                           worker[q].objectives[i].objective_id
                                   \notin DOMAIN worker'[p].index
                               => ~InStore(obj_file', worker[q].objectives[i].objective_id)
            /\ (\A q \in Workers \ {p} : worker[q].pc = "unborn") =>
                   \A i \in 1..Len(worker'[p].objectives) :
                       InStore(obj_file', worker'[p].objectives[i].objective_id)
       ]_vars

\* both instances loaded the empty file, w1 added OBJ-DATA-1, then w2 added
\* OBJ-TRANS-1: the file holds OBJ-TRANS-1 alone
C29_Witness ==
    /\ last.op = "add_objective"
    /\ last.by = "w2"
    /\ worker["w1"].pc = "live"
    /\ worker["w2"].pc = "live"
    /\ DOMAIN worker["w1"].index = {OBJ_DATA_1}
    /\ DOMAIN worker["w2"].index = {OBJ_TRANS_1}
    /\ ~InStore(obj_file, OBJ_DATA_1)
    /\ InStore(obj_file, OBJ_TRANS_1)

\* one instance alone added two objectives and the file holds both
C29_SingleWitness ==
    /\ last.op = "add_objective"
    /\ last.by = "w1"
    /\ worker["w2"].pc = "unborn"
    /\ Len(worker["w1"].objectives) = 2
    /\ StoredObjectives(obj_file) = worker["w1"].objectives

(***************************************************************************)
(* _evaluate_applies_if as an evaluation sandbox: conditions that reach   *)
(* beyond comparisons of employee_count, and companies that differ in     *)
(* every field.                                                            *)
(***************************************************************************)
\* "employee_count.real >= 50", "employee_count.bit_length() >= 8",
\* "employee_count.nope > 1"
AttrTier == Tier(<<"a","t","t","r">>, CmpAttr("employee_count", "real", ">=", 50),
                 "3 months")
CallTier == Tier(<<"c","a","l","l">>,
                 CmpCall("employee_count", "bit_length", ">=", 8), "5 months")
NoAttrTier == Tier(<<"n","o","a","t","t","r">>,
                   CmpAttr("employee_count", "nope", ">", 1), "7 months")

SandboxTiers == {Startup, Sme, Enterprise, AlienTier, AttrTier, CallTier, NoAttrTier}
SandboxTierLists == UNION {[1..n -> SandboxTiers] : n \in 1..2}

\* CompanyContext with all its fields
SandboxCompanies ==
    [company_name : {"Acme Corporation", "Beta AB"},
     employee_count : Sizes,
     industry : {"SaaS", "Fintech"},
     jurisdictions : {<<"SE", "EU">>, <<"FR">>},
     risk_appetite : {"Low", "High"},
     compliance_maturity : {"Initial", "Mature"}]

NextSandbox ==
    /\ last.op = "none"
    /\ \E tiers \in SandboxTierLists : \E company_context \in SandboxCompanies :
        SelectAndBuild(
            ControlVariant(CV_TRANS_1, OBJ_TRANS_1, "V", "base", DataProtection,
                           tiers, SeEu),
            company_context,
            <<"OBL-A">>)

SpecSandbox == InitSelect /\ [][NextSandbox]_vars

\* an expression made only of comparisons of employee_count with a literal,
\* joined by and / or
RECURSIVE Restricted(_)
Restricted(e) ==
    CASE e.k = "cmp" -> e.name = "employee_count"
      [] e.k = "and" -> Restricted(e.l) /\ Restricted(e.r)
      [] e.k = "or" -> Restricted(e.l) /\ Restricted(e.r)
      [] OTHER -> FALSE

\* every company with the employee_count of the call's company (a missing
\* count taken as 0) gets the Control the call returned
C30_SameCountSameControlId ==
    Selected =>
        \A other \in SandboxCompanies :
            OrZero(other.employee_count) = OrZero(last.company_context.employee_count)
            => LET built == select_variant_and_build_control(
                                last.variant, other, last.linked_obligation_ids)
               IN  /\ built.raised = last.raised
                   /\ Len(built.ret) = Len(last.ret)
                   /\ Len(built.ret) = 1 =>
                        built.ret[1].control_id = last.ret[1].control_id

\* C30: tier selection depends only on the variant's tier list and on
\* employee_count: two companies with the same employee_count (a missing one
\* taken as 0) that differ in name, industry, jurisdictions, risk appetite or
\* maturity select the same tier of the same variant, and a condition evaluates
\* true only if it is made of comparisons of employee_count: evaluation has no
\* access to another name, to attributes or to calls.
C30_OnlyEmployeeCount ==
    Selected =>
        /\ \A other \in SandboxCompanies :
               OrZero(other.employee_count)
                   = OrZero(last.company_context.employee_count)
               => FirstApplicable(last.variant.variants, other)
                      = FirstApplicable(last.variant.variants, last.company_context)
        /\ \A i \in 1..Len(last.variant.variants) :
               Applies(i) => Restricted(last.variant.variants[i].applies_if)

\* a tier whose condition reads an attribute of employee_count was selected
C30_AttrSelected ==
    /\ Selected
    /\ last.variant.variants[1] = AttrTier
    /\ BuiltFrom(1)
    /\ Applies(1)

\* a tier whose condition calls a method of employee_count was selected
C30_CallSelected ==
    /\ Selected
    /\ last.variant.variants[1] = CallTier
    /\ last.company_context.employee_count = <<250>>
    /\ BuiltFrom(1)

\* a name other than employee_count, and an attribute an int does not have,
\* make the evaluation raise: neither tier applies and the first is the fallback
C30_NameRaises ==
    /\ Selected
    /\ last.variant.variants = <<NoAttrTier, AlienTier>>
    /\ ~Applies(1) /\ ~Applies(2)
    /\ BuiltFrom(1)
====
